---------------------------- MODULE Spec2Model ----------------------------
(***************************************************************************)
(* A model of the raster-to-vector post-processing code: the path parser   *)
(* and simplifier (pathsimplify.js), the path merger (pathmerge.js), the   *)
(* small-region filter (remove-small-regions.js), the colour quantizer     *)
(* (colorquantize.js), the subject extractor (subjectextract.js), the      *)
(* stage sequencing of startProcessing (orchestrate.js), the path grouping *)
(* (pathgroup.js), and the edge detectors and the path node editor         *)
(* (patheditor.js).                                                        *)
(*                                                                         *)
(* Text is modelled by its tokens.  Path data is the sequence of commands  *)
(* the tokenizer regex of parsePathData cuts it into: a command letter and *)
(* the numbers that follow it.  Markup is the optional <svg> container tag *)
(* and the sequence of <path> elements, each the function from attribute   *)
(* name to attribute value.  Numbers are integers; distances are compared  *)
(* through their squares, as exact rationals.                              *)
(***************************************************************************)
EXTENDS Integers, Sequences, FiniteSets, TLC

VARIABLES
  pc,     \* position of the running operation
  call,   \* the function applied and its arguments
  ret,    \* the value it returned
  svg,    \* startProcessing: the local variable svg;
          \* enablePathEditor: the paths of the document and their overlays
  opts,   \* startProcessing: the option inputs read from the page;
          \* enablePathEditor: the variables of the listeners' closures
  batch,  \* batchProcess: its locals and the promise it awaits
  download \* exportSVG: the file handed to the browser

vars == <<pc, call, ret, svg, opts, batch, download>>

\* The value of a variable that holds nothing (null / undefined).
None == [none |-> TRUE]

-----------------------------------------------------------------------------
(* Generic helpers *)

Abs(n) == IF n < 0 THEN -n ELSE n

Min2(a, b) == IF a < b THEN a ELSE b

Max2(a, b) == IF a > b THEN a ELSE b

\* The sum of a sequence of numbers, by halves (which keeps the evaluation
\* shallow on long sequences).
RECURSIVE SumSeq(_)
SumSeq(s) ==
  IF Len(s) = 0 THEN 0
  ELSE IF Len(s) = 1 THEN s[1]
  ELSE SumSeq(SubSeq(s, 1, Len(s) \div 2))
       + SumSeq(SubSeq(s, Len(s) \div 2 + 1, Len(s)))

\* The concatenation of a sequence of sequences, by halves.
RECURSIVE FlattenSeq(_)
FlattenSeq(ss) ==
  IF Len(ss) = 0 THEN <<>>
  ELSE IF Len(ss) = 1 THEN ss[1]
  ELSE FlattenSeq(SubSeq(ss, 1, Len(ss) \div 2))
       \o FlattenSeq(SubSeq(ss, Len(ss) \div 2 + 1, Len(ss)))

SelectIndices(s, Test(_)) == {i \in 1..Len(s) : Test(s[i])}

\* Array.prototype.slice(0, -1)
DropLast(s) == IF Len(s) = 0 THEN <<>> ELSE SubSeq(s, 1, Len(s) - 1)

\* The exact square root of a perfect square (the inputs of the length
\* measure are drawn so that every segment length is an integer).
ExactSqrt(n) == CHOOSE r \in 0..n : r * r = n

\* floor(sqrt(n)) by bisection on [lo, hi].
RECURSIVE FloorSqrtIn(_, _, _)
FloorSqrtIn(n, lo, hi) ==
  IF lo >= hi THEN lo
  ELSE LET mid == (lo + hi + 1) \div 2
       IN  IF mid * mid <= n THEN FloorSqrtIn(n, mid, hi)
           ELSE FloorSqrtIn(n, lo, mid - 1)

FloorSqrt(n) == FloorSqrtIn(n, 0, Min2(n, 46340))

-----------------------------------------------------------------------------
(* pathsimplify.js: parsePathData *)

Cmd(c, a) == [c |-> c, a |-> a]

Pt(x, y, t) == [x |-> x, y |-> y, type |-> t]

XY(p) == <<p.x, p.y>>

LowerCase(c) ==
  CASE c = "M" -> "m" [] c = "L" -> "l" [] c = "H" -> "h" [] c = "V" -> "v"
    [] c = "Z" -> "z" [] c = "C" -> "c" [] c = "Q" -> "q" [] OTHER -> c

IsRelative(c) == c = LowerCase(c)

\* coords[i] || other : an absent coordinate and the number 0 are both falsy.
CoordOr(coords, i, other) ==
  IF i <= Len(coords) /\ i >= 1 /\ coords[i] # 0 THEN coords[i] ELSE other

\* One iteration of the for-loop over the commands: st is the record of the
\* loop's variables (currentX, currentY, startX, startY, points).
ParseStep(st, command) ==
  LET type   == command.c
      rel    == IsRelative(type)
      coords == command.a
      kind   == LowerCase(type)
      nx(i)  == IF rel THEN st.currentX + CoordOr(coords, i, 0)
                ELSE CoordOr(coords, i, st.currentX)
      ny(i)  == IF rel THEN st.currentY + CoordOr(coords, i, 0)
                ELSE CoordOr(coords, i, st.currentY)
  IN  CASE kind = "m" ->
             [currentX |-> nx(1), currentY |-> ny(2),
              startX |-> nx(1), startY |-> ny(2),
              points |-> Append(st.points, Pt(nx(1), ny(2), "M"))]
        [] kind = "l" ->
             [st EXCEPT !.currentX = nx(1), !.currentY = ny(2),
                        !.points = Append(st.points, Pt(nx(1), ny(2), "L"))]
        [] kind = "h" ->
             [st EXCEPT !.currentX = nx(1),
                        !.points = Append(st.points, Pt(nx(1), st.currentY, "L"))]
        [] kind = "v" ->
             [st EXCEPT !.currentY = ny(1),
                        !.points = Append(st.points, Pt(st.currentX, ny(1), "L"))]
        [] kind = "z" ->
             IF st.currentX # st.startX \/ st.currentY # st.startY
             THEN [st EXCEPT !.currentX = st.startX, !.currentY = st.startY,
                             !.points = Append(st.points,
                                               Pt(st.startX, st.startY, "L"))]
             ELSE st
        [] OTHER ->
             IF Len(coords) >= 2
             THEN LET e == Len(coords) - 1
                  IN  [st EXCEPT !.currentX = nx(e), !.currentY = ny(e + 1),
                                 !.points = Append(st.points,
                                                   Pt(nx(e), ny(e + 1), "L"))]
             ELSE st

ParseInit ==
  [currentX |-> 0, currentY |-> 0, startX |-> 0, startY |-> 0, points |-> <<>>]

RECURSIVE ParseLoop(_, _, _)
ParseLoop(st, commands, i) ==
  IF i > Len(commands) THEN st
  ELSE ParseLoop(ParseStep(st, commands[i]), commands, i + 1)

parsePathData(pathData) == ParseLoop(ParseInit, pathData, 1).points

-----------------------------------------------------------------------------
(* pathsimplify.js: perpendicularDistance, douglasPeucker *)

\* Variant: the distance to the whole line through the two points, without
\* the clamp of the projection parameter.
distanceToLine(point, lineStart, lineEnd) ==
  LET dx == lineEnd.x - lineStart.x
      dy == lineEnd.y - lineStart.y
      px == point.x - lineStart.x
      py == point.y - lineStart.y
  IN  IF dx = 0 /\ dy = 0 THEN <<px * px + py * py, 1>>
      ELSE <<(px * dy - py * dx) * (px * dy - py * dx), dx * dx + dy * dy>>

\* The square of the distance from point to the segment, as the rational
\* <<numerator, denominator>>: the projection parameter t is clamped to
\* [0, 1], so the nearest point is lineStart, lineEnd or the foot of the
\* perpendicular.
perpendicularDistance(point, lineStart, lineEnd) ==
  LET dx  == lineEnd.x - lineStart.x
      dy  == lineEnd.y - lineStart.y
      px  == point.x - lineStart.x
      py  == point.y - lineStart.y
      dot == px * dx + py * dy
      len == dx * dx + dy * dy
  IN  IF dx = 0 /\ dy = 0 THEN <<px * px + py * py, 1>>
      ELSE IF dot <= 0 THEN <<px * px + py * py, 1>>
      ELSE IF dot >= len
        THEN <<(point.x - lineEnd.x) * (point.x - lineEnd.x)
               + (point.y - lineEnd.y) * (point.y - lineEnd.y), 1>>
      ELSE <<(px * dy - py * dx) * (px * dy - py * dx), len>>

\* a > b for squared distances a, b (positive denominators)
DistGreater(a, b) == a[1] * b[2] > b[1] * a[2]

\* distance > tolerance, for a tolerance >= 0 given as a number
ExceedsTolerance(a, tolerance) == a[1] > tolerance * tolerance * a[2]

\* The for-loop of douglasPeucker: the running maximum from index i on
\* (1-based; the loop visits the interior points only).
RECURSIVE MaxScan(_, _, _)
MaxScan(points, i, best) ==
  IF i > Len(points) - 1 THEN best
  ELSE LET distance == perpendicularDistance(points[i], points[1],
                                             points[Len(points)])
       IN  IF DistGreater(distance, best.maxDistance)
           THEN MaxScan(points, i + 1, [maxDistance |-> distance, maxIndex |-> i])
           ELSE MaxScan(points, i + 1, best)

RECURSIVE douglasPeucker(_, _)

\* Variant: the collapse returns the first point and the farthest point
\* instead of the first and the last.
douglasPeuckerToFarthest(points, tolerance) ==
  IF Len(points) <= 2 THEN points
  ELSE LET best == MaxScan(points, 2, [maxDistance |-> <<0, 1>>, maxIndex |-> 1])
       IN  IF ExceedsTolerance(best.maxDistance, tolerance)
           THEN LET left  == douglasPeucker(SubSeq(points, 1, best.maxIndex),
                                            tolerance)
                    right == douglasPeucker(SubSeq(points, best.maxIndex,
                                                   Len(points)), tolerance)
                IN  DropLast(left) \o right
           ELSE <<points[1], points[best.maxIndex]>>

douglasPeucker(points, tolerance) ==
  IF Len(points) <= 2 THEN points
  ELSE LET best == MaxScan(points, 2, [maxDistance |-> <<0, 1>>, maxIndex |-> 1])
       IN  IF ExceedsTolerance(best.maxDistance, tolerance)
           THEN LET left  == douglasPeucker(SubSeq(points, 1, best.maxIndex),
                                            tolerance)
                    right == douglasPeucker(SubSeq(points, best.maxIndex,
                                                   Len(points)), tolerance)
                IN  DropLast(left) \o right
           ELSE <<points[1], points[Len(points)]>>

-----------------------------------------------------------------------------
(* pathsimplify.js: pointsToPathData, simplifyPath *)

pointsToPathData(points, closed) ==
  IF Len(points) = 0 THEN <<>>
  ELSE [i \in 1..Len(points) |->
          Cmd(IF i = 1 THEN "M" ELSE "L", <<points[i].x, points[i].y>>)]
       \o (IF closed THEN <<Cmd("Z", <<>>)>> ELSE <<>>)

\* /[Zz]\s*$/ on the trimmed text: the text ends with a close command.
IsClosed(pathData) ==
  /\ Len(pathData) > 0
  /\ pathData[Len(pathData)].c \in {"Z", "z"}
  /\ pathData[Len(pathData)].a = <<>>

simplifyPath(pathData, tolerance) ==
  IF pathData = <<>> THEN pathData
  ELSE LET points == parsePathData(pathData)
       IN  IF Len(points) <= 2 THEN pathData
           ELSE pointsToPathData(douglasPeucker(points, tolerance),
                                 IsClosed(pathData))

-----------------------------------------------------------------------------
(* Markup *)

\* A colour attribute value.  fmt tells how the text is written: "hex" is
\* #rrggbb, "rgb" is rgb(r,g,b), "rgbsp" is rgb(r, g, b), "name" is a word
\* such as none, "absent" is a missing attribute.  A channel is the number
\* r / den (den = 1 for the integers every input holds); two values are the
\* same text exactly when the records are equal.
Color(fmt, r, g, b, den, name) ==
  [fmt |-> fmt, r |-> r, g |-> g, b |-> b, den |-> den, name |-> name]

Hex(r, g, b) == Color("hex", r, g, b, 1, "")

Rgb(r, g, b) == Color("rgb", r, g, b, 1, "")

RgbSp(r, g, b) == Color("rgbsp", r, g, b, 1, "")

Named(name) == Color("name", 0, 0, 0, 1, name)

NoColor == Color("absent", 0, 0, 0, 1, "")

\* A path element: its fill, stroke and d attributes (d is <<>> when the
\* element has no geometry attribute).  group is the colour written as fill
\* and stroke on the <g> element that encloses the path ("absent" when the
\* path is in no group); the paths of one group follow one another.
\* strokeWidth is the stroke-width attribute (0 when the element has none).
Path(fill, stroke, d) ==
  [fill |-> fill, stroke |-> stroke, d |-> d, group |-> NoColor,
   strokeWidth |-> 0]

\* Whether the <g> tag of its group stands right before the i-th path.
OpensGroup(markup, i) ==
  /\ markup.paths[i].group # NoColor
  /\ (i = 1 \/ markup.paths[i - 1].group # markup.paths[i].group)

\* Markup: whether the text has the <svg ...> container tag, and its path
\* elements in document order.
Markup(tag, paths) == [tag |-> tag, paths |-> paths]

PathCount(markup) == Len(markup.paths)

-----------------------------------------------------------------------------
(* colorquantize.js: quantizeColor, optimizeColorQuantization *)

\* rgb\((\d+),\s*(\d+),\s*(\d+)\) : the three channels are digit runs.
MatchesRgb(color) == color.fmt \in {"rgb", "rgbsp"} /\ color.den = 1

\* (fill|stroke)="(rgb\([^)]+\)|#[0-9a-fA-F]{3,6})"
IsColorToken(color) == color.fmt \in {"rgb", "rgbsp", "hex"}

\* v / step falls exactly between two integers (step = 256 / levels).
IsTie(v, levels) == (2 * v * levels) % 512 = 256

\* 256 / levels is a binary fraction, computed without rounding error.
ExactStep(levels) == levels \in {2, 4, 8, 16, 32, 64, 128, 256}

\* Math.round(v / step).  At a tie Math.round rounds up; when step is not
\* exact the quotient of a tie may come out just below the half (tieDown).
RoundedSteps(v, levels, tieDown) ==
  LET k == (2 * v * levels + 256) \div 512
  IN  IF tieDown /\ IsTie(v, levels) /\ ~ExactStep(levels) THEN k - 1 ELSE k

\* Variant: no Math.min(255, ...).
QuantizeChannelUnclamped(v, levels, tieDown) ==
  <<RoundedSteps(v, levels, tieDown) * 256, levels>>

\* Math.min(255, Math.max(0, Math.round(v / step) * step)) as the rational
\* <<numerator, levels>>.
QuantizeChannel(v, levels, tieDown) ==
  LET k == RoundedSteps(v, levels, tieDown)
  IN  IF k * 256 > 255 * levels THEN <<255 * levels, levels>>
      ELSE <<k * 256, levels>>

\* The text of rgb(r, g, b) for three rationals over the same denominator:
\* integers are written as integers.
RgbText(fmt, r, g, b) ==
  LET den == r[2]
  IN  IF r[1] % den = 0 /\ g[1] % den = 0 /\ b[1] % den = 0
      THEN Color(fmt, r[1] \div den, g[1] \div den, b[1] \div den, 1, "")
      ELSE Color(fmt, r[1], g[1], b[1], den, "")

quantizeColor(color, levels, tieDown) ==
  IF ~MatchesRgb(color) THEN color
  ELSE RgbText("rgbsp", QuantizeChannel(color.r, levels, tieDown),
                        QuantizeChannel(color.g, levels, tieDown),
                        QuantizeChannel(color.b, levels, tieDown))

\* The replace callback of optimizeColorQuantization on one attribute value.
QuantizeAttribute(color, levels, tieDown) ==
  IF ~IsColorToken(color) THEN color
  ELSE IF color.fmt = "hex"
    THEN quantizeColor(Rgb(color.r, color.g, color.b), levels, tieDown)
  ELSE quantizeColor(color, levels, tieDown)

optimizeColorQuantization(markup, colorLevels, tieDown) ==
  IF markup.paths = <<>> /\ ~markup.tag THEN markup
  ELSE IF colorLevels < 2 \/ colorLevels > 256 THEN markup
  ELSE [markup EXCEPT !.paths =
          [i \in 1..Len(markup.paths) |->
             [markup.paths[i] EXCEPT
                !.fill = QuantizeAttribute(@, colorLevels, tieDown),
                !.stroke = QuantizeAttribute(@, colorLevels, tieDown),
                !.group = QuantizeAttribute(@, colorLevels, tieDown)]]]

-----------------------------------------------------------------------------
(* colorquantize.js: reduceColorCount *)

\* The fill and stroke values of the markup, in document order (those of a
\* <g> tag before those of its first path).
ColorAttributes(markup) ==
  FlattenSeq([i \in 1..Len(markup.paths) |->
                (IF OpensGroup(markup, i)
                 THEN <<markup.paths[i].group, markup.paths[i].group>>
                 ELSE <<>>)
                \o <<markup.paths[i].fill, markup.paths[i].stroke>>])

\* The elements of a finite set of integers, in increasing order.
SortedSeq(S) ==
  [p \in 1..Cardinality(S) |->
     CHOOSE x \in S : Cardinality({y \in S : y <= x}) = p]

\* The while-loop over colorRegex: the distinct colour tokens, first seen
\* first, appended to colors.  A match is pushed when its text is not in
\* colorMap, that is, at its first occurrence.
UniqueColors(attrs, colors) ==
  LET firsts == {i \in 1..Len(attrs) :
                   /\ IsColorToken(attrs[i])
                   /\ \A k \in 1..Len(colors) : colors[k] # attrs[i]
                   /\ \A k \in 1..(i - 1) : attrs[k] # attrs[i]}
  IN  colors \o [p \in 1..Cardinality(firsts) |-> attrs[SortedSeq(firsts)[p]]]

\* A colour whose channels the clustering loop can read: a hex colour, or
\* an rgb colour of three digit runs.
CanParse(color) == color.fmt = "hex" \/ MatchesRgb(color)

\* distance < threshold, with threshold = 255 / maxColors * 2
IsSimilar(c1, c2, maxColors) ==
  LET d2 == (c1.r - c2.r) * (c1.r - c2.r) + (c1.g - c2.g) * (c1.g - c2.g)
            + (c1.b - c2.b) * (c1.b - c2.b)
  IN  d2 * maxColors * maxColors < 510 * 510

\* The outer for-loop of the clustering, from index from on.  The loop
\* body does nothing for a processed index (continue), so the next index
\* that matters is the first unprocessed one.
RECURSIVE ColorGroupsFrom(_, _, _, _, _)
ColorGroupsFrom(colors, maxColors, from, processed, colorGroups) ==
  LET rest == {j \in from..Len(colors) : j \notin processed}
  IN  IF rest = {} THEN colorGroups
      ELSE LET i == CHOOSE j \in rest : \A other \in rest : j <= other
               similar == {j \in (i + 1)..Len(colors) :
                             /\ j \notin processed
                             /\ CanParse(colors[j])
                             /\ IsSimilar(colors[i], colors[j], maxColors)}
           IN  IF ~CanParse(colors[i])
               THEN ColorGroupsFrom(colors, maxColors, i + 1,
                                    processed \cup {i}, colorGroups)
               ELSE ColorGroupsFrom(colors, maxColors, i + 1,
                                    processed \cup {i} \cup similar,
                                    Append(colorGroups,
                                           <<i>> \o SortedSeq(similar)))

\* Math.round(sum / n) for sum >= 0
RoundDiv(sum, n) == (2 * sum + n) \div (2 * n)

\* Variant: the mean is truncated (Math.floor) instead of rounded.
AverageColorFloor(colors, group) ==
  Rgb(SumSeq([k \in 1..Len(group) |-> colors[group[k]].r]) \div Len(group),
      SumSeq([k \in 1..Len(group) |-> colors[group[k]].g]) \div Len(group),
      SumSeq([k \in 1..Len(group) |-> colors[group[k]].b]) \div Len(group))

AverageColor(colors, group) ==
  Rgb(RoundDiv(SumSeq([k \in 1..Len(group) |-> colors[group[k]].r]), Len(group)),
      RoundDiv(SumSeq([k \in 1..Len(group) |-> colors[group[k]].g]), Len(group)),
      RoundDiv(SumSeq([k \in 1..Len(group) |-> colors[group[k]].b]), Len(group)))

\* representativeColors, as the sequence of its entries <<old, new>> in
\* insertion order.
RepresentativeColors(colors, colorGroups) ==
  FlattenSeq([n \in 1..Len(colorGroups) |->
                [k \in 1..Len(colorGroups[n]) |->
                   <<colors[colorGroups[n][k]],
                     AverageColor(colors, colorGroups[n])>>]])

\* result.replace(regex, ...) for one entry: every fill / stroke that holds
\* oldColor now holds newColor.
ReplaceColor(markup, oldColor, newColor) ==
  [markup EXCEPT !.paths =
     [i \in 1..Len(markup.paths) |->
        [markup.paths[i] EXCEPT
           !.fill = IF @ = oldColor THEN newColor ELSE @,
           !.stroke = IF @ = oldColor THEN newColor ELSE @,
           !.group = IF @ = oldColor THEN newColor ELSE @]]]

\* What one attribute value becomes when the entries from the k-th on are
\* applied to it one after another, each as ReplaceColor does: the value
\* changes at the first entry whose old colour it equals, and the new
\* value goes on through the entries after that one.
RECURSIVE RewriteFrom(_, _, _)
RewriteFrom(value, entries, k) ==
  LET hits == {j \in k..Len(entries) : entries[j][1] = value}
  IN  IF hits = {} THEN value
      ELSE LET j == CHOOSE h \in hits : \A other \in hits : h <= other
           IN  RewriteFrom(entries[j][2], entries, j + 1)

\* representativeColors.forEach: the entries are applied one after another
\* to the running result.
ReplaceAll(markup, entries) ==
  [markup EXCEPT !.paths =
     [i \in 1..Len(markup.paths) |->
        [markup.paths[i] EXCEPT
           !.fill = RewriteFrom(@, entries, 1),
           !.stroke = RewriteFrom(@, entries, 1),
           !.group = RewriteFrom(@, entries, 1)]]]

\* Variant: the domain check accepts maxColors = 1.
reduceColorCountFromOne(markup, maxColors) ==
  IF markup.paths = <<>> /\ ~markup.tag THEN markup
  ELSE IF maxColors < 1 \/ maxColors > 256 THEN markup
  ELSE LET colors == UniqueColors(ColorAttributes(markup), <<>>)
       IN  IF Len(colors) <= maxColors THEN markup
           ELSE ReplaceAll(markup,
                  RepresentativeColors(colors,
                    ColorGroupsFrom(colors, maxColors, 1, {}, <<>>)))

\* Variant: the early return needs fewer than maxColors colours.
reduceColorCountStrict(markup, maxColors) ==
  IF markup.paths = <<>> /\ ~markup.tag THEN markup
  ELSE IF maxColors < 2 \/ maxColors > 256 THEN markup
  ELSE LET colors == UniqueColors(ColorAttributes(markup), <<>>)
       IN  IF Len(colors) < maxColors THEN markup
           ELSE ReplaceAll(markup,
                  RepresentativeColors(colors,
                    ColorGroupsFrom(colors, maxColors, 1, {}, <<>>)))

reduceColorCount(markup, maxColors) ==
  IF markup.paths = <<>> /\ ~markup.tag THEN markup
  ELSE IF maxColors < 2 \/ maxColors > 256 THEN markup
  ELSE LET colors == UniqueColors(ColorAttributes(markup), <<>>)
       IN  IF Len(colors) <= maxColors THEN markup
           ELSE ReplaceAll(markup,
                  RepresentativeColors(colors,
                    ColorGroupsFrom(colors, maxColors, 1, {}, <<>>)))

-----------------------------------------------------------------------------
(* pathmerge.js *)

\* The key a path is grouped under: its fill, else its stroke, else
\* 'default'.
extractPathColor(path) ==
  IF path.fill.fmt # "absent" THEN path.fill
  ELSE IF path.stroke.fmt # "absent" THEN path.stroke
  ELSE Named("default")

\* pathData.match(/[\d.]+/g): the digit runs of the text, in order.  A
\* minus sign is no part of a run, so each number is read without its sign.
DigitRuns(pathData) ==
  FlattenSeq([i \in 1..Len(pathData) |->
                [k \in 1..Len(pathData[i].a) |-> Abs(pathData[i].a[k])]])

\* |a - b| < 0.1 on integers
WithinThreshold(a, b) == a = b

arePathsAdjacent(pathData1, pathData2) ==
  LET points1 == DigitRuns(pathData1)
      points2 == DigitRuns(pathData2)
  IN  /\ pathData1 # <<>> /\ pathData2 # <<>>
      /\ Len(points1) >= 2
      /\ Len(points2) >= 2
      /\ WithinThreshold(points1[Len(points1) - 1], points2[1])
      /\ WithinThreshold(points1[Len(points1)], points2[2])

mergePathData(pathData1, pathData2) ==
  LET path1 == IF IsClosed(pathData1) THEN DropLast(pathData1) ELSE pathData1
      path2 == IF pathData2 # <<>> /\ pathData2[1].c \in {"M", "m"}
               THEN Tail(pathData2) ELSE pathData2
  IN  IF path2 = <<>> THEN path1 ELSE path1 \o path2

\* The for-loop over j inside while (foundMore): the first unprocessed j
\* that is adjacent to the accumulator in either direction is absorbed.
\* Returns the new accumulator data and j, or j = 0 when none is found.
RECURSIVE ScanAdjacent(_, _, _, _)
ScanAdjacent(mergedData, colorPaths, processed, j) ==
  IF j > Len(colorPaths) THEN [pathData |-> mergedData, j |-> 0]
  ELSE IF j \in processed
    THEN ScanAdjacent(mergedData, colorPaths, processed, j + 1)
  ELSE IF arePathsAdjacent(mergedData, colorPaths[j].d)
    THEN [pathData |-> mergePathData(mergedData, colorPaths[j].d), j |-> j]
  ELSE IF arePathsAdjacent(colorPaths[j].d, mergedData)
    THEN [pathData |-> mergePathData(colorPaths[j].d, mergedData), j |-> j]
  ELSE ScanAdjacent(mergedData, colorPaths, processed, j + 1)

\* while (foundMore)
RECURSIVE Absorb(_, _, _)
Absorb(mergedData, colorPaths, processed) ==
  LET found == ScanAdjacent(mergedData, colorPaths, processed, 1)
  IN  IF found.j = 0 THEN [pathData |-> mergedData, processed |-> processed]
      ELSE Absorb(found.pathData, colorPaths, processed \cup {found.j})

\* The for-loop over i within one colour group.
RECURSIVE MergeGroupFrom(_, _, _, _)
MergeGroupFrom(colorPaths, i, processed, mergedPaths) ==
  IF i > Len(colorPaths) THEN mergedPaths
  ELSE IF i \in processed
    THEN MergeGroupFrom(colorPaths, i + 1, processed, mergedPaths)
  ELSE LET acc == Absorb(colorPaths[i].d, colorPaths, processed \cup {i})
       IN  MergeGroupFrom(colorPaths, i + 1, acc.processed,
                          Append(mergedPaths,
                                 [colorPaths[i] EXCEPT !.d = acc.pathData]))

\* The keys of pathsByColor in insertion order.
RECURSIVE ColorKeys(_, _)
ColorKeys(paths, keys) ==
  IF paths = <<>> THEN keys
  ELSE LET color == extractPathColor(Head(paths))
       IN  IF \E k \in 1..Len(keys) : keys[k] = color
           THEN ColorKeys(Tail(paths), keys)
           ELSE ColorKeys(Tail(paths), Append(keys, color))

\* Variant: the original path elements are not cut out before the merged
\* ones are inserted.
mergeSVGPathsKeepsOriginals(markup) ==
  IF markup.paths = <<>> THEN markup
  ELSE LET keys == ColorKeys(markup.paths, <<>>)
           mergedPaths ==
             FlattenSeq([n \in 1..Len(keys) |->
               MergeGroupFrom(
                 SelectSeq(markup.paths,
                           LAMBDA path : extractPathColor(path) = keys[n]),
                 1, {}, <<>>)])
       IN  IF markup.tag THEN [markup EXCEPT !.paths = mergedPaths \o markup.paths]
           ELSE markup

mergeSVGPaths(markup) ==
  IF markup.paths = <<>> THEN markup
  ELSE LET keys == ColorKeys(markup.paths, <<>>)
           mergedPaths ==
             FlattenSeq([n \in 1..Len(keys) |->
               MergeGroupFrom(
                 SelectSeq(markup.paths,
                           LAMBDA path : extractPathColor(path) = keys[n]),
                 1, {}, <<>>)])
       IN  \* every path is cut out of the text; the merged paths are put
           \* back after the <svg ...> tag, when there is one
           IF markup.tag THEN [markup EXCEPT !.paths = mergedPaths]
           ELSE [markup EXCEPT !.paths = <<>>]

-----------------------------------------------------------------------------
(* remove-small-regions.js *)

RECURSIVE MinOf(_)
MinOf(s) == IF Len(s) = 1 THEN s[1] ELSE Min2(s[1], MinOf(Tail(s)))

RECURSIVE MaxOf(_)
MaxOf(s) == IF Len(s) = 1 THEN s[1] ELSE Max2(s[1], MaxOf(Tail(s)))

getBoundingBox(points) ==
  IF Len(points) = 0 THEN [width |-> 0, height |-> 0]
  ELSE LET xs == [i \in 1..Len(points) |-> points[i].x]
           ys == [i \in 1..Len(points) |-> points[i].y]
       IN  [width |-> MaxOf(xs) - MinOf(xs), height |-> MaxOf(ys) - MinOf(ys)]

\* Twice the area: the shoelace sum before Math.abs(area / 2).
calculateArea(points) ==
  IF Len(points) < 3 THEN 0
  ELSE Abs(SumSeq([i \in 1..Len(points) |->
                     LET j == (i % Len(points)) + 1
                     IN  points[i].x * points[j].y - points[j].x * points[i].y]))

Distance(p, q) ==
  ExactSqrt((q.x - p.x) * (q.x - p.x) + (q.y - p.y) * (q.y - p.y))

calculatePathLength(points) ==
  IF Len(points) < 2 THEN 0
  ELSE SumSeq([i \in 1..(Len(points) - 1) |-> Distance(points[i], points[i + 1])])
       + (IF Len(points) > 2 THEN Distance(points[Len(points)], points[1])
          ELSE 0)

\* size < threshold for the size the mode measures
\* Variant: a size equal to the threshold counts as small.
IsSmallOrEqual(points, threshold, mode) ==
  CASE mode = "area" -> calculateArea(points) <= 2 * threshold
    [] mode = "length" -> calculatePathLength(points) <= threshold
    [] OTHER -> LET bbox == getBoundingBox(points)
                IN  Min2(bbox.width, bbox.height) <= threshold

IsSmall(points, threshold, mode) ==
  CASE mode = "area" -> calculateArea(points) < 2 * threshold
    [] mode = "length" -> calculatePathLength(points) < threshold
    [] OTHER -> LET bbox == getBoundingBox(points)
                IN  Min2(bbox.width, bbox.height) < threshold

\* The replace callback: whether the matched path element is kept.
KeepsPath(path, threshold, mode) ==
  LET points == parsePathData(path.d)
  IN  \/ path.d = <<>>
      \/ Len(points) = 0
      \/ ~IsSmall(points, threshold, mode)

removeSmallRegions(markup, threshold, mode) ==
  IF threshold <= 0 THEN markup
  ELSE [markup EXCEPT !.paths =
          SelectSeq(markup.paths, LAMBDA path : KeepsPath(path, threshold, mode))]

-----------------------------------------------------------------------------
(* Inputs of the path functions *)

MaxX == 2
MaxPoints == 4
MaxLines == 3
MaxTolerance == 2

Grid == (0..MaxX) \X (0..1)

\* The sequences over S of length at most n.
SeqsUpTo(S, n) == UNION {[1..k -> S] : k \in 0..n}

Tolerances == 0..MaxTolerance

\* Point sequences handed to douglasPeucker directly.
PointSeqs == SeqsUpTo({Pt(g[1], g[2], "L") : g \in Grid}, MaxPoints)

MoveTos == {Cmd("M", <<g[1], g[2]>>) : g \in Grid}

LineTos == {Cmd("L", <<g[1], g[2]>>) : g \in Grid}

\* M x y (L x y)* Z? : polylines in absolute coordinates.
Polylines ==
  {<<m>> \o ls \o z : m \in MoveTos, ls \in SeqsUpTo(LineTos, MaxLines),
                      z \in {<<>>, <<Cmd("Z", <<>>)>>}}

\* The other command kinds: one-axis, relative, curve, and commands with
\* missing parameters.
OtherCmds ==
  {Cmd("H", <<0>>), Cmd("H", <<2>>), Cmd("V", <<0>>), Cmd("V", <<1>>),
   Cmd("h", <<1>>), Cmd("v", <<1>>), Cmd("l", <<1, 1>>), Cmd("m", <<1, 0>>),
   Cmd("C", <<0, 1, 1, 1, 2, 1>>), Cmd("c", <<1, 1>>), Cmd("Q", <<1>>),
   Cmd("L", <<>>), Cmd("L", <<1>>), Cmd("z", <<>>), Cmd("M", <<>>)}

MixedPaths ==
  {<<m>> \o cs : m \in MoveTos \cup {Cmd("M", <<>>)},
                 cs \in SeqsUpTo(OtherCmds \cup {Cmd("L", <<2, 1>>)}, 2)}

\* "M0 0 L10 0 L10 10 L0 10 Z"
ScenarioA ==
  <<Cmd("M", <<0, 0>>), Cmd("L", <<10, 0>>), Cmd("L", <<10, 10>>),
    Cmd("L", <<0, 10>>), Cmd("Z", <<>>)>>

PathDataSet == Polylines \cup MixedPaths \cup {ScenarioA, <<>>}

\* The calls made of the path functions.
PathCalls(c) ==
  \/ \E d \in PathDataSet : c = [fn |-> "parsePathData", pathData |-> d]
  \/ \E ps \in PointSeqs, t \in Tolerances :
       c = [fn |-> "douglasPeucker", points |-> ps, tolerance |-> t]
  \/ \E d \in PathDataSet, t \in Tolerances :
       c = [fn |-> "simplifyPath", pathData |-> d, tolerance |-> t]

-----------------------------------------------------------------------------
(* The path functions as operations *)

Returns(fn, value) ==
  /\ pc = "ready"
  /\ call.fn = fn
  /\ ret' = value
  /\ pc' = "done"
  /\ UNCHANGED <<call, svg, opts, batch, download>>

CallParsePathData == Returns("parsePathData", parsePathData(call.pathData))

CallDouglasPeucker ==
  Returns("douglasPeucker", douglasPeucker(call.points, call.tolerance))

CallSimplifyPath ==
  Returns("simplifyPath", simplifyPath(call.pathData, call.tolerance))

PipelineIdle ==
  svg = None /\ opts = None /\ batch = None /\ download = None

InitPath == pc = "ready" /\ PathCalls(call) /\ ret = None /\ PipelineIdle

NextPath == CallParsePathData \/ CallDouglasPeucker \/ CallSimplifyPath

SpecPath == InitPath /\ [][NextPath]_vars

Done(fn) == pc = "done" /\ call.fn = fn

-----------------------------------------------------------------------------
(* Inputs of the markup functions *)

MaxMergePaths == 3
MaxRegionPaths == 2
MaxColorPaths == 3
MaxTracedPaths == 2

Red == Hex(255, 0, 0)

Blue == Hex(0, 0, 255)

\* "M0 0 L10 0" and "M10 0 L20 0"
ScenarioB1 == <<Cmd("M", <<0, 0>>), Cmd("L", <<10, 0>>)>>

ScenarioB2 == <<Cmd("M", <<10, 0>>), Cmd("L", <<20, 0>>)>>

\* Path data for the merger: the two scenario paths, a path that ends in a
\* one-axis command, two with negative coordinates, a closed one, one that
\* starts where the closed one ends.
MergeData ==
  {ScenarioB1, ScenarioB2,
   <<Cmd("M", <<0, 0>>), Cmd("H", <<10>>)>>,
   <<Cmd("M", <<-10, 0>>), Cmd("L", <<0, 0>>)>>,
   <<Cmd("M", <<-10, 0>>), Cmd("L", <<-20, 0>>)>>,
   <<Cmd("M", <<20, 0>>), Cmd("L", <<20, 5>>), Cmd("L", <<30, 5>>),
     Cmd("Z", <<>>)>>}

MergeElements ==
  {Path(Red, NoColor, d) : d \in MergeData}
  \cup {Path(Blue, NoColor, ScenarioB1), Path(Blue, NoColor, ScenarioB2),
        Path(NoColor, NoColor, ScenarioB1)}

MergeMarkups ==
  {Markup(tag, ps) : tag \in BOOLEAN, ps \in SeqsUpTo(MergeElements, MaxMergePaths)}

\* Path data for the region filter, on coordinates whose distances are
\* integers: a point, a segment, a triangle, rectangles, and data that
\* parses to no point.
RegionData ==
  {<<Cmd("M", <<3, 4>>)>>,
   <<Cmd("M", <<3, 4>>), Cmd("L", <<6, 8>>)>>,
   <<Cmd("M", <<3, 4>>), Cmd("L", <<6, 4>>), Cmd("L", <<6, 8>>), Cmd("Z", <<>>)>>,
   <<Cmd("M", <<3, 4>>), Cmd("L", <<6, 4>>), Cmd("L", <<6, 8>>),
     Cmd("L", <<3, 8>>), Cmd("Z", <<>>)>>,
   <<Cmd("M", <<0, 0>>), Cmd("L", <<3, 0>>), Cmd("L", <<3, 4>>),
     Cmd("L", <<0, 4>>), Cmd("Z", <<>>)>>,
   <<Cmd("M", <<3, 4>>), Cmd("H", <<9>>), Cmd("V", <<12>>)>>,
   <<Cmd("Q", <<1>>)>>,
   <<>>}

RegionElements == {Path(Red, NoColor, d) : d \in RegionData}

RegionMarkups ==
  {Markup(TRUE, ps) : ps \in SeqsUpTo(RegionElements, MaxRegionPaths)}

Thresholds == {0, 3, 4, 12, 14, 15}

Modes == {"area", "length", "dimension", "other"}

\* Colours for the quantizer: close reds in the three notations, a far
\* colour, a word, and a colour text with fractional channels.
Palette ==
  {Red, Rgb(250, 0, 0), RgbSp(253, 0, 0), Blue, Named("none")}

ColorElements ==
  {Path(c, NoColor, ScenarioB1) : c \in Palette}
  \cup {Path(Color("rgbsp", 256, 0, 512, 3, ""), Rgb(251, 3, 0), ScenarioB1)}

\* 10 elements with distinct fills in a small RGB neighbourhood.
ScenarioC ==
  Markup(TRUE, [i \in 1..10 |-> Path(Rgb(200 + i, 100, 50 + 2 * i), NoColor,
                                     ScenarioB1)])

ColorMarkups ==
  {Markup(TRUE, ps) : ps \in SeqsUpTo(ColorElements, MaxColorPaths)}
  \cup {ScenarioC, Markup(FALSE, <<>>)}

\* Colour values of one cluster around rgb(0,0,0) for maxColors = 40
\* (threshold 12.75), each <<r, g, b, number of texts>>: with rgb(0,0,0)
\* their channel sums are 195, 195 and 144 over 26 colours, so the rounded
\* mean is (8, 8, 6), at distance sqrt(164) > 12.75 from rgb(0,0,0).
ClusterValues ==
  <<<<7, 7, 8, 3>>, <<7, 8, 6, 3>>, <<7, 8, 7, 3>>, <<7, 9, 5, 1>>,
    <<8, 7, 6, 1>>, <<8, 7, 7, 3>>, <<8, 8, 5, 3>>, <<8, 9, 4, 3>>,
    <<9, 7, 5, 2>>, <<9, 8, 4, 3>>>>

\* The first v[4] of the three texts of one colour value.
ColorTexts(v) ==
  SubSeq(<<Rgb(v[1], v[2], v[3]), RgbSp(v[1], v[2], v[3]),
           Hex(v[1], v[2], v[3])>>, 1, v[4])

\* 41 distinct colour texts: rgb(0,0,0) and its 25 neighbours, then the
\* text rgb(8,8,6) and rgb(16,8,6) close to it, then 13 far colours.
ChainedColors ==
  <<Rgb(0, 0, 0)>>
  \o FlattenSeq([i \in 1..Len(ClusterValues) |-> ColorTexts(ClusterValues[i])])
  \o <<Rgb(8, 8, 6), Rgb(16, 8, 6)>>
  \o [i \in 1..13 |-> Rgb(200 + i, 0, 200)]

\* Markup whose fill and stroke values are, in document order, the
\* colours above.
ChainedMarkup ==
  Markup(TRUE,
         [i \in 1..((Len(ChainedColors) + 1) \div 2) |->
            Path(ChainedColors[2 * i - 1],
                 IF 2 * i <= Len(ChainedColors) THEN ChainedColors[2 * i]
                 ELSE NoColor,
                 ScenarioB1)])

\* Values of the level / maxColors argument.
Levels == {-1, 0, 1, 2, 3, 4, 256, 257}

\* Values of the colour level input of the page.
LevelInputs == {-1, 0, 1, 2, 256, 300}

\* The calls made of the markup functions.
MarkupCalls(c) ==
  \/ \E m \in MergeMarkups : c = [fn |-> "mergeSVGPaths", svg |-> m]
  \/ \E m \in RegionMarkups, t \in Thresholds, md \in Modes :
       c = [fn |-> "removeSmallRegions", svg |-> m, threshold |-> t, mode |-> md]
  \/ \E m \in ColorMarkups, n \in Levels :
       c = [fn |-> "reduceColorCount", svg |-> m, maxColors |-> n]
  \/ c = [fn |-> "reduceColorCount", svg |-> ChainedMarkup, maxColors |-> 40]
  \/ \E m \in ColorMarkups, n \in Levels :
       c = [fn |-> "optimizeColorQuantization", svg |-> m, colorLevels |-> n]

\* What the tracing engine may hand to the vector stages.
TracedElements ==
  {Path(Red, NoColor, ScenarioB1), Path(Red, NoColor, ScenarioB2),
   Path(Rgb(250, 0, 0), NoColor, ScenarioB2),
   Path(Blue, NoColor,
        <<Cmd("M", <<3, 4>>), Cmd("L", <<6, 4>>), Cmd("L", <<6, 8>>),
          Cmd("L", <<3, 8>>), Cmd("Z", <<>>)>>),
   Path(RgbSp(253, 0, 0), NoColor,
        <<Cmd("M", <<1, 1>>), Cmd("L", <<2, 1>>), Cmd("L", <<3, 1>>),
          Cmd("L", <<3, 9>>)>>)}

TracedMarkups ==
  {Markup(tag, ps) : tag \in BOOLEAN,
     ps \in SeqsUpTo(TracedElements, MaxTracedPaths)}

-----------------------------------------------------------------------------
(* The markup functions as operations *)

CallMergeSVGPaths == Returns("mergeSVGPaths", mergeSVGPaths(call.svg))

CallRemoveSmallRegions ==
  Returns("removeSmallRegions",
          removeSmallRegions(call.svg, call.threshold, call.mode))

CallReduceColorCount ==
  Returns("reduceColorCount", reduceColorCount(call.svg, call.maxColors))

CallOptimizeColorQuantization ==
  \E tieDown \in BOOLEAN :
    Returns("optimizeColorQuantization",
            optimizeColorQuantization(call.svg, call.colorLevels, tieDown))

-----------------------------------------------------------------------------
(* The per-channel quantizer over every channel value and level count *)

\* The colours handed to quantizeColor: every channel value appears, in
\* both spellings of rgb(...), and two texts the pattern does not match.
QuantColors ==
  {Rgb(v, 255 - v, 128) : v \in 0..255}
  \cup {RgbSp(v, v, 255) : v \in {0, 100, 192, 255}}
  \cup {Hex(255, 0, 0), Named("none")}

QuantLevels == 2..256

\* One-element markup for optimizeColorQuantization: a hex fill and an
\* rgb(...) stroke.
QuantMarkups ==
  {Markup(TRUE, <<Path(Hex(v, v, v), RgbSp(255 - v, 0, 255), ScenarioB1)>>) :
     v \in 0..255}

QuantCalls(c) ==
  \/ \E color \in QuantColors, levels \in QuantLevels :
       c = [fn |-> "quantizeColor", color |-> color, levels |-> levels]
  \/ \E m \in QuantMarkups, n \in {2, 3, 16, 100, 256} :
       c = [fn |-> "optimizeColorQuantization", svg |-> m, colorLevels |-> n]

CallQuantizeColor ==
  \E tieDown \in BOOLEAN :
    Returns("quantizeColor", quantizeColor(call.color, call.levels, tieDown))

InitQuant == pc = "ready" /\ QuantCalls(call) /\ ret = None /\ PipelineIdle

NextQuant == CallQuantizeColor \/ CallOptimizeColorQuantization

SpecQuant == InitQuant /\ [][NextQuant]_vars

-----------------------------------------------------------------------------
(* pathgroup.js: groupPathsByColor, groupPaths *)

\* extractPathColor of pathgroup.js: the fill, else the stroke, else
\* '#000000'.
GroupColor(path) ==
  IF path.fill.fmt # "absent" THEN path.fill
  ELSE IF path.stroke.fmt # "absent" THEN path.stroke
  ELSE Hex(0, 0, 0)

\* The keys of pathsByColor in insertion order.
RECURSIVE GroupKeys(_, _)
GroupKeys(paths, keys) ==
  IF paths = <<>> THEN keys
  ELSE LET color == GroupColor(Head(paths))
       IN  IF \E k \in 1..Len(keys) : keys[k] = color
           THEN GroupKeys(Tail(paths), keys)
           ELSE GroupKeys(Tail(paths), Append(keys, color))

\* The paths are written out colour by colour; the paths of a colour that
\* has more than one lose their fill and stroke and stand in a <g> element
\* that has the colour as fill and as stroke.
groupPathsByColor(markup) ==
  IF markup.paths = <<>> \/ ~markup.tag THEN markup
  ELSE LET keys == GroupKeys(markup.paths, <<>>)
       IN  [markup EXCEPT !.paths =
             FlattenSeq([k \in 1..Len(keys) |->
               LET members == SelectSeq(markup.paths,
                                LAMBDA path : GroupColor(path) = keys[k])
               IN  IF Len(members) > 1
                   THEN [j \in 1..Len(members) |->
                           [members[j] EXCEPT !.fill = NoColor,
                                              !.stroke = NoColor,
                                              !.group = keys[k]]]
                   ELSE members])]

\* groupPaths with byProximity false, as startProcessing calls it.
groupPaths(markup, byColor) ==
  IF byColor THEN groupPathsByColor(markup) ELSE markup

-----------------------------------------------------------------------------
(* pathsmooth.js, pathoutline.js: not among the sources; after the
   specification's sections on the smoother and the outline extractor *)

\* A path of fewer than 3 points is kept; the points of any other path are
\* moved (each x by one unit stands for the smoother's arithmetic) and
\* written out again.
SmoothData(pathData) ==
  LET points == parsePathData(pathData)
  IN  IF Len(points) < 3 THEN pathData
      ELSE pointsToPathData([i \in 1..Len(points) |->
                               [points[i] EXCEPT !.x = @ + 1]],
                            IsClosed(pathData))

\* No-op if smoothness <= 0 (smoothness is held in percent, as read from
\* the page; the caller's division by 100 keeps its sign).
smoothSVGPaths(markup, smoothness) ==
  IF smoothness <= 0 THEN markup
  ELSE [markup EXCEPT !.paths =
          [i \in 1..Len(markup.paths) |->
             [markup.paths[i] EXCEPT !.d = SmoothData(@)]]]

\* Each element: fill none, stroke the prior fill (else the prior stroke,
\* else black), stroke-width the given width; d untouched.  No-op if
\* strokeWidth <= 0.
extractSVGOutline(markup, strokeWidth) ==
  IF strokeWidth <= 0 THEN markup
  ELSE [markup EXCEPT !.paths =
          [i \in 1..Len(markup.paths) |->
             [markup.paths[i] EXCEPT
                !.fill = Named("none"),
                !.stroke = IF markup.paths[i].fill.fmt # "absent"
                             THEN markup.paths[i].fill
                           ELSE IF @.fmt # "absent" THEN @
                           ELSE Named("black"),
                !.strokeWidth = strokeWidth]]]

-----------------------------------------------------------------------------
(* previewmode.js: applyPreviewMode *)

PreviewModes == {"normal", "fill-only", "outline-only", "wireframe", "other"}

\* '#000'
ShortBlack == Color("hex3", 0, 0, 0, 1, "")

\* The replace callback on one path element.  The patterns that take an
\* attribute out or rewrite it start with \s+, so they do not match the
\* attribute the element text starts with (first).
PreviewPath(path, mode, outlineWidth, first) ==
  LET hasFill == path.fill.fmt # "absent"
      hasStroke == path.stroke.fmt # "absent"
      hasWidth == path.strokeWidth # 0
      fillHit == hasFill /\ first # "fill"
      strokeHit == hasStroke /\ first # "stroke"
  IN  CASE mode = "fill-only" ->
             [path EXCEPT
                !.stroke = IF strokeHit THEN NoColor ELSE @,
                !.strokeWidth = 0,
                !.fill = IF hasFill THEN @ ELSE Named("currentColor")]
        [] mode = "outline-only" ->
             [path EXCEPT
                !.fill = IF fillHit THEN Named("none") ELSE @,
                !.stroke = IF ~hasStroke
                             THEN (IF path.d # <<>> THEN Named("currentColor")
                                   ELSE @)
                           ELSE IF hasWidth THEN @
                           ELSE Named("currentColor"),
                !.strokeWidth = IF ~hasStroke
                                  THEN (IF path.d # <<>> THEN outlineWidth ELSE @)
                                ELSE outlineWidth]
        [] mode = "wireframe" ->
             [path EXCEPT
                !.fill = IF fillHit THEN Named("none") ELSE @,
                !.stroke = IF strokeHit \/ ~hasStroke THEN ShortBlack ELSE @,
                !.strokeWidth = IF hasWidth \/ ~hasStroke THEN 1 ELSE @]
        [] OTHER -> path

applyPreviewMode(markup, mode, outlineWidth, first) ==
  IF (markup.paths = <<>> /\ ~markup.tag) \/ mode = "normal" THEN markup
  ELSE [markup EXCEPT !.paths =
          [i \in 1..Len(markup.paths) |->
             PreviewPath(markup.paths[i], mode, outlineWidth, first)]]

-----------------------------------------------------------------------------
(* orchestrate.js: startProcessing *)

\* simplifySVGPaths: every path element with a d attribute gets its data
\* simplified.
simplifySVGPaths(markup, tolerance) ==
  [markup EXCEPT !.paths =
     [i \in 1..Len(markup.paths) |->
        [markup.paths[i] EXCEPT !.d = simplifyPath(@, tolerance)]]]

\* A stage: it reads its option from the page, rewrites svg, and control
\* moves to the next stage.
Stage(at, name, value, result, next) ==
  /\ pc = at
  /\ call.fn = "startProcessing"
  /\ opts' = [name |-> name, value |-> value]
  /\ svg' = result
  /\ pc' = next
  /\ UNCHANGED <<call, ret, batch, download>>

\* preProcessInputImage / preProcessMainCanvas: the image is prepared; there
\* is no markup yet.
PreProcess ==
  \E supportsOffscreenCanvas \in BOOLEAN :
    Stage("preprocess", "supportsOffscreenCanvas", supportsOffscreenCanvas,
          svg, "trace")

\* convertToColorSVG / convertToMonochromeSVG: the tracing engine's output.
Trace ==
  \E traced \in TracedMarkups :
    Stage("trace", "colorRadio", call.color, traced, "simplify")

StageSimplify ==
  \E simplifyTolerance \in {0, 1} :
    Stage("simplify", "pathSimplify", simplifyTolerance,
          IF simplifyTolerance > 0 THEN simplifySVGPaths(svg, simplifyTolerance)
          ELSE svg,
          "smooth")

StageSmooth ==
  \E smoothness \in {0, 50} :
    Stage("smooth", "pathSmooth", smoothness,
          IF smoothness > 0 THEN smoothSVGPaths(svg, smoothness) ELSE svg,
          "merge")

StageMerge ==
  \E pathMergeEnabled \in BOOLEAN :
    Stage("merge", "pathMergeEnabled", pathMergeEnabled,
          IF pathMergeEnabled THEN mergeSVGPaths(svg) ELSE svg,
          "removeSmall")

StageRemoveSmall ==
  \E removeSmallThreshold \in {0, 4} :
    Stage("removeSmall", "removeSmallRegions", removeSmallThreshold,
          IF removeSmallThreshold > 0
          THEN removeSmallRegions(svg, removeSmallThreshold, "dimension")
          ELSE svg,
          "outline")

StageOutline ==
  \E outlineWidth \in {0, 2} :
    Stage("outline", "pathOutline", outlineWidth,
          IF outlineWidth > 0 THEN extractSVGOutline(svg, outlineWidth)
          ELSE svg,
          "group")

\* Variant: the paths are grouped whether the box is checked or not.
StageGroupAlways ==
  \E pathGroupEnabled \in BOOLEAN :
    Stage("group", "pathGroupEnabled", pathGroupEnabled,
          groupPaths(svg, TRUE), "colour")

StageGroup ==
  \E pathGroupEnabled \in BOOLEAN :
    Stage("group", "pathGroupEnabled", pathGroupEnabled,
          IF pathGroupEnabled THEN groupPaths(svg, TRUE) ELSE svg,
          "colour")

\* What the colour stage does with the level it read.
ColorStage(markup, colorQuantization) ==
  IF colorQuantization > 0 /\ colorQuantization < 256
  THEN reduceColorCount(markup, colorQuantization)
  ELSE markup

StageColor ==
  \E colorQuantization \in LevelInputs :
    Stage("colour", "colorQuantization", colorQuantization,
          ColorStage(svg, colorQuantization), "display")

\* What .svg-output holds while startProcessing runs (spinner.svg).
Spinner == [tag |-> TRUE, paths |-> <<>>, spinner |-> TRUE]

\* displayResult: nothing is done for an empty svg (the spinner stays);
\* otherwise the markup, rewritten by applyPreviewMode when the selected
\* mode is not normal, is written to .svg-output (ret holds its innerHTML).
\* first is the attribute the tracer writes first in a path element.
Display ==
  /\ pc = "display"
  /\ call.fn = "startProcessing"
  /\ \E previewMode \in PreviewModes, first \in {"fill", "stroke", "d"} :
       /\ opts' = [name |-> "previewMode", value |-> previewMode]
       /\ ret' = IF svg.paths = <<>> /\ ~svg.tag THEN Spinner
                 ELSE IF previewMode # "normal"
                   THEN applyPreviewMode(svg, previewMode, 2, first)
                 ELSE svg
  /\ pc' = "done"
  /\ UNCHANGED <<call, svg, batch, download>>

\* exportSVG: the text of .svg-output, wrapped in an <svg> element when it
\* does not start with one, is handed to the browser as a file (for png
\* and pdf it is the text that is rendered).
ExportSVG ==
  /\ pc = "done"
  /\ call.fn = "startProcessing"
  /\ ~(ret.paths = <<>> /\ ~ret.tag)
  /\ \E format \in {"svg", "png", "pdf"} :
       download' = [format |-> format, fullSVG |-> [ret EXCEPT !.tag = TRUE]]
  /\ pc' = "exported"
  /\ UNCHANGED <<call, ret, svg, opts, batch>>

InitPipeline ==
  /\ pc = "preprocess"
  /\ call \in {[fn |-> "startProcessing", color |-> c] : c \in BOOLEAN}
  /\ ret = None
  /\ svg = None
  /\ opts = None
  /\ batch = None
  /\ download = None

NextPipeline ==
  \/ PreProcess
  \/ Trace
  \/ StageSimplify
  \/ StageSmooth
  \/ StageMerge
  \/ StageRemoveSmall
  \/ StageOutline
  \/ StageGroup
  \/ StageColor
  \/ Display
  \/ ExportSVG

InitMarkup ==
  \/ pc = "ready" /\ MarkupCalls(call) /\ ret = None /\ PipelineIdle
  \/ InitPipeline

NextMarkup ==
  \/ CallMergeSVGPaths
  \/ CallRemoveSmallRegions
  \/ CallReduceColorCount
  \/ CallOptimizeColorQuantization
  \/ NextPipeline

SpecMarkup == InitMarkup /\ [][NextMarkup]_vars

-----------------------------------------------------------------------------
(* subjectextract.js: colorDistance, extractSubject *)

\* A pixel: the four bytes of the RGBA array.
Pixel(r, g, b, a) == [r |-> r, g |-> g, b |-> b, a |-> a]

\* ImageData: data[i] is the pixel at index i = y * width + x.
ImageData(width, height, data) ==
  [width |-> width, height |-> height, data |-> data]

\* The square of the distance (the callers compare squares).
colorDistance(r1, g1, b1, r2, g2, b2) ==
  LET dr == r1 - r2
      dg == g1 - g2
      db == b1 - b2
  IN  dr * dr + dg * dg + db * db

edgeThreshold == 30

\* The indices pushed to cornerSamples, in push order.
CornerSamples(width, height, keepCorners) ==
  IF ~keepCorners THEN <<>>
  ELSE LET sampleSize == Min2(10, Min2(width \div 10, height \div 10))
       IN  FlattenSeq([n \in 1..(sampleSize * sampleSize) |->
             LET y == (n - 1) \div sampleSize
                 x == (n - 1) % sampleSize
             IN  <<y * width + x,
                   y * width + (width - 1 - x),
                   (height - 1 - y) * width + x,
                   (height - 1 - y) * width + (width - 1 - x)>>])

\* Variant: the sums are not divided by cornerSamples.length.
AverageBackgroundSum(data, samples) ==
  IF Len(samples) = 0 THEN [r |-> 0, g |-> 0, b |-> 0, n |-> 1]
  ELSE [r |-> SumSeq([k \in 1..Len(samples) |-> data[samples[k]].r]),
        g |-> SumSeq([k \in 1..Len(samples) |-> data[samples[k]].g]),
        b |-> SumSeq([k \in 1..Len(samples) |-> data[samples[k]].b]),
        n |-> 1]

\* avgBgR, avgBgG, avgBgB as the three sums over the common denominator n.
AverageBackground(data, samples) ==
  IF Len(samples) = 0 THEN [r |-> 0, g |-> 0, b |-> 0, n |-> 1]
  ELSE [r |-> SumSeq([k \in 1..Len(samples) |-> data[samples[k]].r]),
        g |-> SumSeq([k \in 1..Len(samples) |-> data[samples[k]].g]),
        b |-> SumSeq([k \in 1..Len(samples) |-> data[samples[k]].b]),
        n |-> Len(samples)]

\* First pass: the indices whose isBackground entry is set to 1.
\* dist < threshold, with both sides squared and scaled by n * n.
FirstPass(imageData, avg, threshold) ==
  {i \in DOMAIN imageData.data :
     LET px == imageData.data[i]
     IN  \/ px.a < 128
         \/ /\ threshold > 0
            /\ colorDistance(avg.n * px.r, avg.n * px.g, avg.n * px.b,
                             avg.r, avg.g, avg.b)
                 < threshold * threshold * avg.n * avg.n}

\* edgeStrength[y * width + x]: the Sobel magnitude stored in a Uint8Array
\* (truncated, modulo 256); 0 on the border, which the loop skips.  gray is
\* (r + g + b) / 3, so gx and gy are the integer sums below over 3.
EdgeStrength(imageData, idx) ==
  LET width == imageData.width
      height == imageData.height
      x == idx % width
      y == idx \div width
      sobelX == <<<<-1, 0, 1>>, <<-2, 0, 2>>, <<-1, 0, 1>>>>
      sobelY == <<<<-1, -2, -1>>, <<0, 0, 0>>, <<1, 2, 1>>>>
      gray3(kx, ky) == LET px == imageData.data[(y + ky) * width + (x + kx)]
                       IN  px.r + px.g + px.b
      gx3 == SumSeq([n \in 1..9 |->
               LET ky == ((n - 1) \div 3) - 1
                   kx == ((n - 1) % 3) - 1
               IN  gray3(kx, ky) * sobelX[ky + 2][kx + 2]])
      gy3 == SumSeq([n \in 1..9 |->
               LET ky == ((n - 1) \div 3) - 1
                   kx == ((n - 1) % 3) - 1
               IN  gray3(kx, ky) * sobelY[ky + 2][kx + 2]])
  IN  IF x < 1 \/ x >= width - 1 \/ y < 1 \/ y >= height - 1 THEN 0
      ELSE FloorSqrt((gx3 * gx3 + gy3 * gy3) \div 9) % 256

\* The edge pass: strong edges are taken out of isBackground.
EdgePass(imageData, isBackground, detectEdges) ==
  IF ~detectEdges THEN isBackground
  ELSE {i \in isBackground : ~(EdgeStrength(imageData, i) > edgeThreshold)}

\* The test of the loop body: the popped entry is inside the image, not
\* visited, and marked background; any other entry is skipped (continue).
Fillable(entry, st, width, height) ==
  LET x == entry[1]
      y == entry[2]
  IN  /\ ~(x < 0 \/ x >= width \/ y < 0 \/ y >= height)
      /\ ~(y * width + x \in st.visited \/ y * width + x \notin st.isBackground)

\* Steps of the while-loop of floodFill.  stack is the set of entries on
\* the stack; st holds visited and isBackground as the sets of indices set
\* to 1.  The order in which entries are popped does not change the two
\* arrays the loop ends with, so one step here pops every entry on the
\* stack: those the body skips are dropped, the others are filled and their
\* four neighbours pushed.  At most n steps are taken.
RECURSIVE FloodSteps(_, _, _, _, _)
FloodSteps(stack, st, n, width, height) ==
  LET live == {entry \in stack : Fillable(entry, st, width, height)}
      filled == {entry[2] * width + entry[1] : entry \in live}
  IN  IF live = {} THEN [stack |-> {}, st |-> st]
      ELSE IF n = 0 THEN [stack |-> live, st |-> st]
      ELSE FloodSteps(UNION {{<<entry[1] + 1, entry[2]>>, <<entry[1] - 1, entry[2]>>,
                               <<entry[1], entry[2] + 1>>, <<entry[1], entry[2] - 1>>} :
                              entry \in live},
                      [visited |-> st.visited \cup filled,
                       isBackground |-> st.isBackground \cup filled],
                      n - 1, width, height)

\* The while-loop of floodFill, run until the stack is empty (in rounds of
\* 16 steps, which keeps the evaluation shallow).
RECURSIVE FloodLoop(_, _, _, _)
FloodLoop(stack, st, width, height) ==
  LET round == FloodSteps(stack, st, 16, width, height)
  IN  IF round.stack = {} THEN round.st
      ELSE FloodLoop(round.stack, round.st, width, height)

floodFill(startX, startY, st, width, height) ==
  FloodLoop({<<startX, startY>>}, st, width, height)

\* The points floodFill is started from, in call order.
FloodSeeds(width, height, keepCorners) ==
  IF ~keepCorners THEN <<>>
  ELSE LET sampleSize == Min2(20, Min2((width * 15) \div 100, (height * 15) \div 100))
       IN  FlattenSeq([n \in 1..(sampleSize * sampleSize) |->
             LET y == (n - 1) \div sampleSize
                 x == (n - 1) % sampleSize
             IN  <<<<x, y>>, <<width - 1 - x, y>>, <<x, height - 1 - y>>,
                   <<width - 1 - x, height - 1 - y>>>>])

\* The floodFill calls from the k-th on, in order.  A call whose start
\* point the loop body skips leaves the arrays as they are, so the next
\* call that matters is the first one whose start point is fillable.
RECURSIVE FloodFrom(_, _, _, _, _)
FloodFrom(seeds, k, st, width, height) ==
  LET live == {j \in k..Len(seeds) : Fillable(seeds[j], st, width, height)}
  IN  IF live = {} THEN st
      ELSE LET j == CHOOSE i \in live : \A other \in live : i <= other
           IN  FloodFrom(seeds, j + 1,
                         floodFill(seeds[j][1], seeds[j][2], st, width, height),
                         width, height)

\* The arrays visited and isBackground when the output loop starts.
Segmentation(imageData, options) ==
  LET width == imageData.width
      height == imageData.height
      samples == CornerSamples(width, height, options.keepCorners)
      avg == AverageBackground(imageData.data, samples)
      first == FirstPass(imageData, avg, options.threshold)
      classified == EdgePass(imageData, first, options.detectEdges)
  IN  FloodFrom(FloodSeeds(width, height, options.keepCorners), 1,
                [visited |-> {}, isBackground |-> classified], width, height)

extractSubject(imageData, options) ==
  LET st == Segmentation(imageData, options)
  IN  [imageData EXCEPT !.data =
         [i \in DOMAIN imageData.data |->
            IF i \in st.isBackground THEN Pixel(0, 0, 0, 0)
            ELSE imageData.data[i]]]

-----------------------------------------------------------------------------
(* Inputs of extractSubject *)

Side == 10

Gray(v, a) == Pixel(v, v, v, a)

\* A Side x Side image of one backdrop colour with a square frame of a dark
\* colour whose top-left corner is (x0, y0) and whose side is size; the
\* pixels inside the frame have the colour inner; when gap is set, one
\* pixel of the frame's top side has the backdrop colour.
FramedImage(backdrop, frame, inner, x0, y0, size, gap) ==
  ImageData(Side, Side,
    [i \in 0..(Side * Side - 1) |->
       LET x == i % Side
           y == i \div Side
           inBox == x >= x0 /\ x < x0 + size /\ y >= y0 /\ y < y0 + size
           onFrame == inBox /\ (x = x0 \/ x = x0 + size - 1
                                \/ y = y0 \/ y = y0 + size - 1)
       IN  IF onFrame /\ gap /\ y = y0 /\ x = x0 + 1 THEN backdrop
           ELSE IF onFrame THEN frame
           ELSE IF inBox THEN inner
           ELSE backdrop])

Images ==
  UNION {{FramedImage(Gray(bg, 255), Gray(0, 255), inner, x0, 2, size, gap) :
            inner \in {Gray(bg, 255), Gray(231, 255), Gray(0, 255), Gray(0, 100)},
            x0 \in {2, 3}, size \in {3, 4, 5}, gap \in BOOLEAN} :
         bg \in {240, 255}}

\* An image whose every pixel is the same.
UniformImage(width, height, pixel) ==
  ImageData(width, height, [i \in 0..(width * height - 1) |-> pixel])

\* The 50 x 50 pale-gray image.
ScenarioD == UniformImage(50, 50, Gray(200, 255))

UniformImages ==
  {UniformImage(width, height, pixel) :
     width \in {Side, Side + 2}, height \in {Side, Side + 1},
     pixel \in {Gray(200, 255), Pixel(210, 200, 220, 255), Gray(20, 255)}}
  \cup {ScenarioD}

SubjectOptions ==
  [threshold : {0, 10, 30}, detectEdges : BOOLEAN, keepCorners : BOOLEAN]

CallExtractSubject ==
  Returns("extractSubject", extractSubject(call.imageData, call.options))

InitSubject ==
  /\ pc = "ready"
  /\ \E image \in Images \cup UniformImages, options \in SubjectOptions :
       call = [fn |-> "extractSubject", imageData |-> image, options |-> options]
  /\ ret = None
  /\ PipelineIdle

NextSubject == CallExtractSubject

SpecSubject == InitSubject /\ [][NextSubject]_vars

-----------------------------------------------------------------------------
(* Claims about the path functions, checked under SpecPath *)

\* The points a serialized path lists: one per M / L command.
ListedPoints(pathData) ==
  LET drawn == SelectSeq(pathData, LAMBDA c : c.c \in {"M", "L"})
  IN  [i \in 1..Len(drawn) |-> <<drawn[i].a[1], drawn[i].a[2]>>]

SameEnds(out, in) ==
  Len(in) >= 1 => /\ Len(out) >= 1
                  /\ out[1] = in[1]
                  /\ out[Len(out)] = in[Len(in)]

\* C1: simplification keeps the endpoints.  douglasPeucker returns a
\* sequence that starts with the first and ends with the last input point,
\* for every tolerance >= 0, and returns an input of at most 2 points as it
\* is; simplifyPath serializes a path whose first and last listed points are
\* the first and last parsed point of its input, and returns the text of a
\* path of at most 2 parsed points unchanged.
C1_EndpointsPreserved ==
  /\ Done("douglasPeucker") =>
       /\ SameEnds(ret, call.points)
       /\ Len(call.points) <= 2 => ret = call.points
  /\ Done("simplifyPath") =>
       LET points == parsePathData(call.pathData)
       IN  /\ Len(points) <= 2 => ret = call.pathData
           /\ Len(points) > 2 =>
                SameEnds(ListedPoints(ret),
                         [i \in 1..Len(points) |-> XY(points[i])])

\* C1 witness: a sequence of 4 points was simplified to fewer points.
C1_Witness ==
  /\ Done("douglasPeucker")
  /\ Len(call.points) = 4
  /\ Len(ret) < 4
  /\ call.points[1] # call.points[4]

\* A polyline in absolute coordinates closed by a final Z.
IsClosedPolyline(d) ==
  /\ Len(d) >= 2
  /\ d[1].c = "M" /\ Len(d[1].a) = 2
  /\ d[Len(d)] = Cmd("Z", <<>>)
  /\ \A i \in 2..(Len(d) - 1) : d[i].c = "L" /\ Len(d[i].a) = 2

\* Where the commands before the Z leave the cursor: at the coordinates of
\* the last M / L command.
CursorBeforeZ(d) == <<d[Len(d) - 1].a[1], d[Len(d) - 1].a[2]>>

\* C2: a closed polyline M (L)* Z whose line commands leave the cursor away
\* from the start parses to one point per M / L command plus one closing
\* point equal to the MoveTo point, and is recognised as closed; when the
\* cursor is at the start as Z is read, no closing point is added.
C2_ClosedPolylineParse ==
  (Done("parsePathData") /\ IsClosedPolyline(call.pathData)) =>
    LET d == call.pathData
        start == <<d[1].a[1], d[1].a[2]>>
    IN  /\ IsClosed(d)
        /\ IF CursorBeforeZ(d) # start
           THEN /\ Len(ret) = Len(d)
                /\ XY(ret[Len(ret)]) = start
           ELSE Len(ret) = Len(d) - 1

\* Scenario A itself: 5 points, the last (0,0), closed.
ScenarioAParse ==
  (Done("parsePathData") /\ call.pathData = ScenarioA) =>
    /\ Len(ret) = 5
    /\ XY(ret[5]) = <<0, 0>>
    /\ IsClosed(ScenarioA)

-----------------------------------------------------------------------------
(* Claims about the markup functions and the stages, checked under
   SpecMarkup *)

\* Where the pen is after the absolute commands M, L, H, V, Z of pathData,
\* by the path grammar.
RECURSIVE PenAfter(_, _, _, _)
PenAfter(pathData, i, pen, start) ==
  IF i > Len(pathData) THEN pen
  ELSE LET c == pathData[i].c
           a == pathData[i].a
       IN  CASE c = "M" -> PenAfter(pathData, i + 1, <<a[1], a[2]>>, <<a[1], a[2]>>)
             [] c = "L" -> PenAfter(pathData, i + 1, <<a[1], a[2]>>, start)
             [] c = "H" -> PenAfter(pathData, i + 1, <<a[1], pen[2]>>, start)
             [] c = "V" -> PenAfter(pathData, i + 1, <<pen[1], a[1]>>, start)
             [] c = "Z" -> PenAfter(pathData, i + 1, start, start)
             [] OTHER   -> PenAfter(pathData, i + 1, pen, start)

FirstPoint(pathData) == <<pathData[1].a[1], pathData[1].a[2]>>

LastPoint(pathData) == PenAfter(pathData, 1, <<0, 0>>, <<0, 0>>)

\* Two paths of one colour, in a container, the first ending where the
\* second starts.
IsChainedPair(markup) ==
  /\ markup.tag
  /\ Len(markup.paths) = 2
  /\ markup.paths[1].fill = markup.paths[2].fill
  /\ markup.paths[1].stroke = markup.paths[2].stroke
  /\ LastPoint(markup.paths[1].d) = FirstPoint(markup.paths[2].d)

\* C3: two paths of the same colour, the last point of the first equal to
\* the first point of the second, are merged into exactly one path whose
\* data is the first path's data (less a closing Z) followed by the second
\* path's data without its leading move command.
C3_ChainedPairMerged ==
  (Done("mergeSVGPaths") /\ IsChainedPair(call.svg)) =>
    LET d1 == call.svg.paths[1].d
        d2 == call.svg.paths[2].d
    IN  /\ Len(ret.paths) = 1
        /\ ret.paths[1].d \in {d1 \o Tail(d2), DropLast(d1) \o Tail(d2)}

\* Scenario B itself: "M0 0 L10 0" and "M10 0 L20 0", both #ff0000, become
\* the one path "M0 0 L10 0 L20 0".
ScenarioBMerge ==
  (/\ Done("mergeSVGPaths")
   /\ call.svg = Markup(TRUE, <<Path(Red, NoColor, ScenarioB1),
                              Path(Red, NoColor, ScenarioB2)>>)) =>
    ret.paths = <<Path(Red, NoColor,
                       <<Cmd("M", <<0, 0>>), Cmd("L", <<10, 0>>),
                         Cmd("L", <<20, 0>>)>>)>>

Fills(markup) == [i \in 1..Len(markup.paths) |-> markup.paths[i].fill]

SquaredDistance(c1, c2) ==
  (c1.r - c2.r) * (c1.r - c2.r) + (c1.g - c2.g) * (c1.g - c2.g)
  + (c1.b - c2.b) * (c1.b - c2.b)

\* Every element has a fill that is a colour of integer channels and no
\* stroke; the fills are distinct texts and pairwise closer than
\* 2 * 255 / limit.
HasCloseDistinctFills(markup, limit) ==
  LET fills == Fills(markup)
  IN  /\ \A i \in 1..Len(fills) :
           /\ CanParse(fills[i])
           /\ markup.paths[i].stroke = NoColor
      /\ \A i, j \in 1..Len(fills) :
           i # j => /\ fills[i] # fills[j]
                    /\ SquaredDistance(fills[i], fills[j]) * limit * limit
                         < 510 * 510

\* The channel-wise arithmetic mean of the fills, rounded to the nearest
\* integer, written rgb(r,g,b).
RoundedMean(fills) ==
  LET n == Len(fills)
      mean(ch(_)) == (2 * SumSeq([i \in 1..n |-> ch(fills[i])]) + n) \div (2 * n)
  IN  Rgb(mean(LAMBDA c : c.r), mean(LAMBDA c : c.g), mean(LAMBDA c : c.b))

\* C4 as stated: with maxColors = 1, elements with pairwise-close distinct
\* fills all get one shared fill, the mean of the input colours.
C4_OneColorCollapses ==
  (/\ Done("reduceColorCount")
   /\ call.maxColors = 1
   /\ Len(call.svg.paths) >= 2
   /\ HasCloseDistinctFills(call.svg, 1)) =>
    \A i \in 1..Len(ret.paths) : ret.paths[i].fill = RoundedMean(Fills(call.svg))

\* C4 amended: with maxColors = 1 the markup is returned unchanged; with
\* maxColors in [2,256] and more than maxColors elements whose fills are
\* distinct and pairwise closer than 2 * 255 / maxColors (and no strokes),
\* every fill becomes the one shared colour, the rounded mean.
C4_CloseFillsCollapse ==
  Done("reduceColorCount") =>
    /\ call.maxColors = 1 => ret = call.svg
    /\ (/\ call.maxColors \in 2..256
        /\ Len(call.svg.paths) > call.maxColors
        /\ HasCloseDistinctFills(call.svg, call.maxColors)) =>
         /\ Len(ret.paths) = Len(call.svg.paths)
         /\ \A i \in 1..Len(ret.paths) :
              ret.paths[i].fill = RoundedMean(Fills(call.svg))

\* C4 witness: the 10 close fills of the scenario were collapsed with
\* maxColors = 2.
C4_Witness ==
  /\ Done("reduceColorCount")
  /\ call.svg = ScenarioC
  /\ call.maxColors = 2
  /\ ret # call.svg

InLevelDomain(n) == n >= 2 /\ n <= 256

\* C5: a colour stage given a level outside [2,256] returns the markup
\* unchanged, and the colour stage of startProcessing leaves svg as it is
\* when the level it read is outside [2,256].
C5_OutOfDomainIsIdentity ==
  /\ [](/\ (Done("reduceColorCount") /\ ~InLevelDomain(call.maxColors))
             => ret = call.svg
        /\ (Done("optimizeColorQuantization") /\ ~InLevelDomain(call.colorLevels))
             => ret = call.svg)
  /\ [][(pc = "colour" /\ pc' = "display" /\ ~InLevelDomain(opts'.value))
          => svg' = svg]_vars

\* C5 witness: the colour stage read the level 1, which it passes on, on
\* markup with two colours.
C5_Witness ==
  /\ pc = "display"
  /\ opts.value = 1
  /\ Len(UniqueColors(ColorAttributes(svg), <<>>)) >= 2

\* The distinct fill / stroke attribute texts of the markup.
ColorStrings(markup) ==
  ({markup.paths[i].fill : i \in 1..Len(markup.paths)}
   \cup {markup.paths[i].stroke : i \in 1..Len(markup.paths)}) \ {NoColor}

\* C6: reduceColorCount returns the markup unchanged when it holds at most
\* maxColors distinct fill / stroke texts, for maxColors in [2,256].
C6_WithinLimitIsIdentity ==
  (/\ Done("reduceColorCount")
   /\ InLevelDomain(call.maxColors)
   /\ Cardinality(ColorStrings(call.svg)) <= call.maxColors) =>
    ret = call.svg

\* C6 witness: markup with exactly maxColors colours, all close enough to
\* be clustered.
C6_Witness ==
  /\ Done("reduceColorCount")
  /\ call.maxColors = 3
  /\ ColorStrings(call.svg) = {Red, Rgb(250, 0, 0), RgbSp(253, 0, 0)}

\* The size a mode measures, doubled (the area is a multiple of 1/2).
DoubledSize(points, mode) ==
  LET n == Len(points)
      next(i) == IF i = n THEN 1 ELSE i + 1
      xs == {points[i].x : i \in 1..n}
      ys == {points[i].y : i \in 1..n}
      span(S) == (CHOOSE hi \in S : \A v \in S : v <= hi)
                 - (CHOOSE lo \in S : \A v \in S : v >= lo)
      edge(i, j) == ExactSqrt((points[i].x - points[j].x) * (points[i].x - points[j].x)
                              + (points[i].y - points[j].y) * (points[i].y - points[j].y))
  IN  CASE mode = "area" ->
             IF n < 3 THEN 0
             ELSE Abs(SumSeq([i \in 1..n |->
                    points[i].x * points[next(i)].y - points[next(i)].x * points[i].y]))
        [] mode = "length" ->
             IF n < 2 THEN 0
             ELSE 2 * (SumSeq([i \in 1..(n - 1) |-> edge(i, i + 1)])
                       + (IF n > 2 THEN edge(n, 1) ELSE 0))
        [] OTHER -> 2 * Min2(span(xs), span(ys))

\* C8: with threshold 0 the markup is returned unchanged, in every mode;
\* with a threshold > 0 the paths kept are, in order, those without
\* parsed points and those whose measured size is not less than threshold.
C8_RemovesExactlySmall ==
  Done("removeSmallRegions") =>
    /\ call.threshold = 0 => ret = call.svg
    /\ call.threshold > 0 =>
         ret.paths =
           SelectSeq(call.svg.paths,
                     LAMBDA path :
                       \/ Len(parsePathData(path.d)) = 0
                       \/ DoubledSize(parsePathData(path.d), call.mode)
                            >= 2 * call.threshold)

\* C8 witness: a call that removed one path and kept another whose size
\* equals the threshold.
C8_Witness ==
  /\ Done("removeSmallRegions")
  /\ call.threshold > 0
  /\ Len(call.svg.paths) = 2
  /\ Len(ret.paths) = 1
  /\ Len(parsePathData(ret.paths[1].d)) > 0
  /\ DoubledSize(parsePathData(ret.paths[1].d), call.mode) = 2 * call.threshold

\* C9: removeSmallRegions and mergeSVGPaths return markup with at most as
\* many path elements as they were given, and no step of the merge and
\* remove-small-regions stages of startProcessing raises the path count.
C9_PathCountNonIncreasing ==
  /\ []((Done("removeSmallRegions") \/ Done("mergeSVGPaths"))
          => PathCount(ret) <= PathCount(call.svg))
  /\ [][(pc \in {"merge", "removeSmall"})
          => PathCount(svg') <= PathCount(svg)]_vars

\* C9 witness: mergeSVGPaths returned fewer path elements than it was
\* given, and at least one.
C9_Witness ==
  /\ Done("mergeSVGPaths")
  /\ PathCount(ret) >= 1
  /\ PathCount(ret) < PathCount(call.svg)

-----------------------------------------------------------------------------
(* Claims about the per-channel quantizer, checked under SpecQuant *)

\* The channels of a written colour, each as <<numerator, denominator>>.
Channels(color) == {<<color.r, color.den>>, <<color.g, color.den>>,
                    <<color.b, color.den>>}

\* The colours a quantizer call wrote.
WrittenColors ==
  IF call.fn = "quantizeColor"
  THEN (IF MatchesRgb(call.color) THEN {ret} ELSE {})
  ELSE UNION {{ret.paths[i].fill, ret.paths[i].stroke} :
                i \in {j \in 1..Len(ret.paths) :
                         /\ IsColorToken(call.svg.paths[j].fill)
                         /\ IsColorToken(call.svg.paths[j].stroke)}}

QuantizerLevels == IF call.fn = "quantizeColor" THEN call.levels ELSE call.colorLevels

QuantizerDone == Done("quantizeColor") \/ Done("optimizeColorQuantization")

InByteRange(ch) == 0 <= ch[1] /\ ch[1] <= 255 * ch[2]

\* C7 as stated: every written channel is an integer, an exact multiple of
\* floor(256 / levels), and lies in [0,255].
C7_MultiplesOfFloorStep ==
  (QuantizerDone /\ InLevelDomain(QuantizerLevels)) =>
    \A color \in WrittenColors : \A ch \in Channels(color) :
      /\ InByteRange(ch)
      /\ ch[1] % ch[2] = 0
      /\ (ch[1] \div ch[2]) % (256 \div QuantizerLevels) = 0

\* C7 amended: every written channel lies in [0,255] and is a multiple of
\* 256 / levels (the step, not rounded down), or is 255 where that multiple
\* would exceed 255; it is an exact multiple of floor(256 / levels) when
\* levels divides 256 and the value was not cut to 255.
C7_MultiplesOfStepOr255 ==
  (QuantizerDone /\ InLevelDomain(QuantizerLevels)) =>
    \A color \in WrittenColors : \A ch \in Channels(color) :
      /\ InByteRange(ch)
      /\ \/ ch[1] = 255 * ch[2]
         \/ \E k \in 0..QuantizerLevels : ch[1] * QuantizerLevels = k * 256 * ch[2]
      /\ (256 % QuantizerLevels = 0 /\ ch[1] # 255 * ch[2]) =>
           /\ ch[1] % ch[2] = 0
           /\ (ch[1] \div ch[2]) % (256 \div QuantizerLevels) = 0

\* C7 witness: with 3 levels rgb(5,250,128) got a channel cut to 255 and
\* channels that are multiples of 256 / 3.
C7_Witness ==
  /\ Done("quantizeColor")
  /\ call.levels = 3
  /\ call.color = Rgb(5, 250, 128)
  /\ ret.den = 3
  /\ ret.g = 255 * 3
  /\ ret.b = 512

-----------------------------------------------------------------------------
(* Claims about extractSubject, checked under SpecSubject *)

\* The pixels the first pass and the edge pass leave classified as
\* background.
Classified(imageData, options) ==
  EdgePass(imageData,
           FirstPass(imageData,
                     AverageBackground(imageData.data,
                       CornerSamples(imageData.width, imageData.height,
                                     options.keepCorners)),
                     options.threshold),
           options.detectEdges)

Neighbours(i, width, height) ==
  {j \in 0..(width * height - 1) :
     \/ j \div width = i \div width /\ Abs(j - i) = 1
     \/ Abs(j - i) = width}

\* The members of region that are 4-connected to a member of reached
\* through region.
RECURSIVE Connected(_, _, _, _)
Connected(reached, region, width, height) ==
  LET more == {j \in region \ reached :
                 \E i \in reached : j \in Neighbours(i, width, height)}
  IN  IF more = {} THEN reached
      ELSE Connected(reached \cup more, region, width, height)

\* The classified pixels connected to a corner seed.
CornerConnected(imageData, options) ==
  LET region == Classified(imageData, options)
      seeds == FloodSeeds(imageData.width, imageData.height, options.keepCorners)
      start == {seeds[k][2] * imageData.width + seeds[k][1] : k \in 1..Len(seeds)}
  IN  Connected(start \cap region, region, imageData.width, imageData.height)

\* C10: with keepCorners = true only background-classified pixels that are
\* 4-connected to a corner seed through background-classified pixels are
\* made transparent; every other pixel keeps its source bytes.
C10_OnlyCornerConnectedCleared ==
  (Done("extractSubject") /\ call.options.keepCorners) =>
    \A i \in DOMAIN ret.data :
      i \notin CornerConnected(call.imageData, call.options)
        => ret.data[i] = call.imageData.data[i]

IsUniform(imageData) ==
  \A i \in DOMAIN imageData.data : imageData.data[i] = imageData.data[0]

-----------------------------------------------------------------------------
(* patheditor.js: applySobelEdgeDetection *)

\* The colours (among those used as inputs) for which the double sum
\* r * 0.299 + g * 0.587 + b * 0.114 comes out just below the integer the
\* exact sum equals, so that the Uint8Array store truncates to one less.
GrayRoundsBelow == {<<254, 254, 254>>, <<0, 72, 24>>}

\* grayData[i]: the weighted sum stored in a Uint8Array (truncated).
GrayData(imageData, i) ==
  LET px == imageData.data[i]
      exact == 299 * px.r + 587 * px.g + 114 * px.b
  IN  IF <<px.r, px.g, px.b>> \in GrayRoundsBelow THEN (exact \div 1000) - 1
      ELSE exact \div 1000

\* gx or gy at the interior pixel (x, y) for one of the two operators.
SobelSum(imageData, x, y, kernel) ==
  SumSeq([n \in 1..9 |->
    LET ky == ((n - 1) \div 3) - 1
        kx == ((n - 1) % 3) - 1
    IN  GrayData(imageData, (y + ky) * imageData.width + (x + kx))
          * kernel[ky + 2][kx + 2]])

\* Variant: the comparison is not strict.
EdgeValueAtLeast(gx, gy, threshold) ==
  IF threshold < 0 \/ gx * gx + gy * gy >= threshold * threshold THEN 255
  ELSE 0

\* magnitude > threshold ? 255 : 0, with magnitude = sqrt(gx^2 + gy^2) >= 0
\* compared through the squares.
EdgeValue(gx, gy, threshold) ==
  IF threshold < 0 \/ gx * gx + gy * gy > threshold * threshold THEN 255
  ELSE 0

\* edgeData[idx]: 0 (the array's initial value) where the loops do not go.
EdgeData(imageData, threshold, idx) ==
  LET width == imageData.width
      height == imageData.height
      x == idx % width
      y == idx \div width
      gx == SobelSum(imageData, x, y, <<<<-1, 0, 1>>, <<-2, 0, 2>>, <<-1, 0, 1>>>>)
      gy == SobelSum(imageData, x, y, <<<<-1, -2, -1>>, <<0, 0, 0>>, <<1, 2, 1>>>>)
  IN  IF x < 1 \/ x >= width - 1 \/ y < 1 \/ y >= height - 1 THEN 0
      ELSE EdgeValue(gx, gy, threshold)

\* options: given tells whether a threshold was passed (default 50).
SobelThreshold(options) == IF options.given THEN options.threshold ELSE 50

applySobelEdgeDetection(imageData, options) ==
  ImageData(imageData.width, imageData.height,
    [i \in 0..(imageData.width * imageData.height - 1) |->
       LET value == EdgeData(imageData, SobelThreshold(options), i)
       IN  Pixel(value, value, value, 255)])

-----------------------------------------------------------------------------
(* Inputs of applySobelEdgeDetection *)

MaxSide == 4

SobelPalette ==
  {Gray(200, 255), Gray(0, 255), Gray(254, 255), Gray(255, 255),
   Pixel(0, 72, 24, 255), Pixel(210, 200, 220, 255)}

\* A width x height image of the colour bg in which the pixels picked by
\* mask have the colour fg.
PatternImage(width, height, bg, fg, mask) ==
  ImageData(width, height,
    [i \in 0..(width * height - 1) |->
       LET x == i % width
           y == i \div width
           marked == CASE mask = "none" -> FALSE
                       [] mask = "dot" -> i = (width * height) \div 2
                       [] mask = "left" -> x < width \div 2
                       [] mask = "top" -> y = 0
                       [] mask = "corner" -> x = 0 /\ y = 0
       IN  IF marked THEN fg ELSE bg])

SobelOptions ==
  {[given |-> TRUE, threshold |-> t] : t \in {-1, 0, 1, 50, 1020}}
  \cup {[given |-> FALSE, threshold |-> 0]}

SobelCalls(c) ==
  \E width \in 1..MaxSide, height \in 1..MaxSide,
     bg \in {Gray(200, 255), Gray(254, 255), Pixel(0, 72, 24, 255)},
     fg \in SobelPalette,
     mask \in {"none", "dot", "left", "top", "corner"},
     options \in SobelOptions :
    c = [fn |-> "applySobelEdgeDetection",
         imageData |-> PatternImage(width, height, bg, fg, mask),
         options |-> options]

CallApplySobelEdgeDetection ==
  Returns("applySobelEdgeDetection",
          applySobelEdgeDetection(call.imageData, call.options))

InitSobel == pc = "ready" /\ SobelCalls(call) /\ ret = None /\ PipelineIdle

NextSobel == CallApplySobelEdgeDetection

SpecSobel == InitSobel /\ [][NextSobel]_vars

-----------------------------------------------------------------------------
(* Claims about applySobelEdgeDetection, checked under SpecSobel *)

OnBorder(imageData, i) ==
  LET x == i % imageData.width
      y == i \div imageData.width
  IN  x = 0 \/ y = 0 \/ x = imageData.width - 1 \/ y = imageData.height - 1

\* C12: on an image whose pixels all have one colour, with a threshold
\* >= 0, the edge value of every output pixel is 0, whatever the width and
\* height (sizes below 3 included); in every output the pixels of the
\* 1-pixel border have edge value 0 and every edge value is 0 or 255.
C12_UniformImageHasNoEdges ==
  Done("applySobelEdgeDetection") =>
    /\ ret.width = call.imageData.width
    /\ ret.height = call.imageData.height
    /\ (IsUniform(call.imageData) /\ SobelThreshold(call.options) >= 0) =>
         \A i \in DOMAIN ret.data : ret.data[i].r = 0
    /\ \A i \in DOMAIN ret.data :
         /\ OnBorder(call.imageData, i) => ret.data[i].r = 0
         /\ ret.data[i].r \in {0, 255}

\* A uniform image with interior pixels, threshold 0, all edge values 0.
C12_Witness ==
  /\ Done("applySobelEdgeDetection")
  /\ IsUniform(call.imageData)
  /\ call.imageData.width >= 3
  /\ call.imageData.height >= 3
  /\ call.options = [given |-> TRUE, threshold |-> 0]
  /\ \A i \in DOMAIN ret.data : ret.data[i] = Pixel(0, 0, 0, 255)

-----------------------------------------------------------------------------
(* stats.js: getSVGStats *)

\* Variant: every path element is counted.
MatchesAnyPath(path) == TRUE

\* pathRegex /<path\s+[^>]*d="([^"]+)"[^>]*\/?>/ : a path element with a
\* non-empty d attribute.
MatchesPathRegex(path) == path.d # <<>>

\* colors.add for fillMatch and strokeMatch of one element.
AddColors(colors, path) ==
  colors \cup (IF path.fill.fmt # "absent" THEN {path.fill} ELSE {})
         \cup (IF path.stroke.fmt # "absent" THEN {path.stroke} ELSE {})

\* The while-loop over pathRegex from the i-th element on.
RECURSIVE StatsLoop(_, _, _)
StatsLoop(paths, i, acc) ==
  IF i > Len(paths) THEN acc
  ELSE IF ~MatchesPathRegex(paths[i]) THEN StatsLoop(paths, i + 1, acc)
  ELSE StatsLoop(paths, i + 1,
         [pathCount |-> acc.pathCount + 1,
          nodeCount |-> acc.nodeCount + Len(parsePathData(paths[i].d)),
          colors |-> AddColors(acc.colors, paths[i])])

\* The statistics of the markup (the text length fileSize is left out: the
\* markup is held as elements, not as characters).
getSVGStats(markup) ==
  IF markup = None
  THEN [pathCount |-> 0, nodeCount |-> 0, colorCount |-> 0]
  ELSE LET acc == StatsLoop(markup.paths, 1,
                            [pathCount |-> 0, nodeCount |-> 0, colors |-> {}])
       IN  [pathCount |-> acc.pathCount, nodeCount |-> acc.nodeCount,
            colorCount |-> Cardinality(acc.colors)]

-----------------------------------------------------------------------------
(* Inputs of getSVGStats *)

MaxStatsPaths == 2

\* "M0 0 L1 1" and "M2 2 L3 3 L4 4"
ScenarioE1 == <<Cmd("M", <<0, 0>>), Cmd("L", <<1, 1>>)>>

ScenarioE2 == <<Cmd("M", <<2, 2>>), Cmd("L", <<3, 3>>), Cmd("L", <<4, 4>>)>>

ScenarioE ==
  Markup(TRUE, <<Path(Red, NoColor, ScenarioE1), Path(Blue, NoColor, ScenarioE2)>>)

\* Elements with and without geometry, with a closed path and a curve, and
\* with fills and strokes present, absent, shared and written differently.
StatsElements ==
  {Path(fill, stroke, d) :
     fill \in {Red, Blue, Named("none"), NoColor},
     stroke \in {NoColor, Red, Rgb(255, 0, 0)},
     d \in {ScenarioE1, ScenarioE2, <<>>,
            <<Cmd("M", <<1, 1>>), Cmd("L", <<5, 1>>), Cmd("L", <<5, 5>>),
              Cmd("Z", <<>>)>>,
            <<Cmd("M", <<1, 1>>), Cmd("C", <<1, 2, 3, 4, 5, 6>>)>>}}

StatsCalls(c) ==
  \/ c = [fn |-> "getSVGStats", svg |-> None]
  \/ \E tag \in BOOLEAN, ps \in SeqsUpTo(StatsElements, MaxStatsPaths) :
       c = [fn |-> "getSVGStats", svg |-> Markup(tag, ps)]

CallGetSVGStats == Returns("getSVGStats", getSVGStats(call.svg))

InitStats == pc = "ready" /\ StatsCalls(call) /\ ret = None /\ PipelineIdle

NextStats == CallGetSVGStats

SpecStats == InitStats /\ [][NextStats]_vars

-----------------------------------------------------------------------------
(* Claims about getSVGStats, checked under SpecStats *)

\* The path elements that have geometry.
WithGeometry(markup) == {i \in 1..Len(markup.paths) : markup.paths[i].d # <<>>}

\* The fill and stroke values written on the elements of the index set.
AttributeStrings(markup, indices) ==
  ({markup.paths[i].fill : i \in indices}
     \cup {markup.paths[i].stroke : i \in indices}) \ {NoColor}

RECURSIVE SumOver(_, _)
SumOver(f, indices) ==
  IF indices = {} THEN 0
  ELSE LET i == CHOOSE j \in indices : TRUE
       IN  f[i] + SumOver(f, indices \ {i})

\* C13: pathCount is the number of path elements with geometry, nodeCount
\* the sum over those elements of the number of points parsePathData
\* returns for their d, colorCount the number of distinct fill / stroke
\* values written on them; the two-path markup of the scenario gives
\* 2, 5 and 2.
C13_StatsCountPathsNodesColors ==
  (Done("getSVGStats") /\ call.svg # None) =>
    LET markup == call.svg
        counted == WithGeometry(markup)
    IN  /\ ret.pathCount = Cardinality(counted)
        /\ ret.nodeCount =
             SumOver([i \in counted |-> Len(parsePathData(markup.paths[i].d))],
                     counted)
        /\ ret.colorCount = Cardinality(AttributeStrings(markup, counted))
        /\ markup = ScenarioE =>
             ret = [pathCount |-> 2, nodeCount |-> 5, colorCount |-> 2]

C13_Witness ==
  /\ Done("getSVGStats")
  /\ call.svg = ScenarioE
  /\ ret = [pathCount |-> 2, nodeCount |-> 5, colorCount |-> 2]

-----------------------------------------------------------------------------
(* batch.js: processImage, batchProcess *)

\* A file of the batch: its name, and what goes wrong when it is handled:
\* nothing, the FileReader fails, the image does not decode, or
\* startProcessing throws.
File(name, fault) == [name |-> name, fault |-> fault]

\* A result entry; error is "" for an entry that has no error field.
Entry(fileName, svgValue, error) ==
  [fileName |-> fileName, svg |-> svgValue, error |-> error]

\* The file the loop is at (i counts from 0).
CurrentFile == call.files[batch.i + 1]

\* What .svg-output may hold once startProcessing has displayed its result.
DisplayedMarkups ==
  {Markup(TRUE, <<>>), Markup(TRUE, <<Path(Red, NoColor, ScenarioB1)>>)}

BatchStep(at, next, promise, results, downloads, i) ==
  /\ pc = at
  /\ call.fn = "batchProcess"
  /\ pc' = next
  /\ batch' = [i |-> i, results |-> results, downloads |-> downloads,
               promise |-> promise]
  /\ UNCHANGED <<call, ret, svg, opts, download>>

\* The loop test holds: processImage(file) is called and awaited.
CallProcessImage ==
  /\ pc = "loop"
  /\ batch.i < Len(call.files)
  /\ BatchStep("loop", "read", [state |-> "pending", value |-> None],
               batch.results, batch.downloads, batch.i)

\* reader.onerror: the promise is rejected.
ReaderError ==
  /\ pc = "read"
  /\ CurrentFile.fault = "read"
  /\ BatchStep("read", "settled",
               [state |-> "rejected", value |-> [message |-> "Failed to read file"]],
               batch.results, batch.downloads, batch.i)

\* reader.onload: the image element is given the data URL.
ReaderLoad ==
  /\ pc = "read"
  /\ CurrentFile.fault # "read"
  /\ BatchStep("read", "decode", batch.promise,
               batch.results, batch.downloads, batch.i)

\* img.onerror: the promise is rejected.
ImageError ==
  /\ pc = "decode"
  /\ CurrentFile.fault = "decode"
  /\ BatchStep("decode", "settled",
               [state |-> "rejected", value |-> [message |-> "Failed to load image"]],
               batch.results, batch.downloads, batch.i)

\* img.onload: the timer is set.
ImageLoad ==
  /\ pc = "decode"
  /\ CurrentFile.fault # "decode"
  /\ BatchStep("decode", "timer", batch.promise,
               batch.results, batch.downloads, batch.i)

\* The timer callback when startProcessing returns: resolve(svg).
TimerResolves ==
  /\ pc = "timer"
  /\ CurrentFile.fault # "convert"
  /\ \E displayed \in DisplayedMarkups :
       BatchStep("timer", "settled",
                 [state |-> "resolved", value |-> displayed],
                 batch.results, batch.downloads, batch.i)

\* The timer callback when startProcessing throws: the async callback's own
\* promise is rejected; neither resolve nor reject of processImage's promise
\* is called, so the promise stays pending and the await never resumes.
TimerThrows ==
  /\ pc = "timer"
  /\ CurrentFile.fault = "convert"
  /\ BatchStep("timer", "awaiting", batch.promise,
               batch.results, batch.downloads, batch.i)

\* The await resumes with the value: the download when autoExport is set,
\* results.push, i++.
AwaitFulfilled ==
  /\ pc = "settled"
  /\ batch.promise.state = "resolved"
  /\ BatchStep("settled", "loop", [state |-> "none", value |-> None],
               Append(batch.results,
                      Entry(CurrentFile.name, batch.promise.value, "")),
               IF call.autoExport THEN Append(batch.downloads, CurrentFile.name)
               ELSE batch.downloads,
               batch.i + 1)

\* The await throws: the catch block pushes the error entry, i++.
AwaitRejected ==
  /\ pc = "settled"
  /\ batch.promise.state = "rejected"
  /\ BatchStep("settled", "loop", [state |-> "none", value |-> None],
               Append(batch.results,
                      Entry(CurrentFile.name, None, batch.promise.value.message)),
               batch.downloads,
               batch.i + 1)

\* The loop test fails: return results (ret holds the array as its field
\* entries).
BatchReturn ==
  /\ pc = "loop"
  /\ call.fn = "batchProcess"
  /\ ~(batch.i < Len(call.files))
  /\ ret' = [entries |-> batch.results]
  /\ pc' = "done"
  /\ UNCHANGED <<call, svg, opts, batch, download>>

-----------------------------------------------------------------------------
(* Inputs of batchProcess *)

MaxFiles == 3

Files ==
  {File(name, fault) : name \in {"a.png", "b.png"},
                       fault \in {"none", "read", "decode", "convert"}}

InitBatch ==
  /\ pc = "loop"
  /\ \E files \in SeqsUpTo(Files, MaxFiles), autoExport \in BOOLEAN :
       call = [fn |-> "batchProcess", files |-> files, autoExport |-> autoExport]
  /\ ret = None
  /\ svg = None
  /\ opts = None
  /\ download = None
  /\ batch = [i |-> 0, results |-> <<>>, downloads |-> <<>>,
              promise |-> [state |-> "none", value |-> None]]

NextBatch ==
  \/ CallProcessImage
  \/ ReaderError
  \/ ReaderLoad
  \/ ImageError
  \/ ImageLoad
  \/ TimerResolves
  \/ TimerThrows
  \/ AwaitFulfilled
  \/ AwaitRejected
  \/ BatchReturn

\* Every callback that is due runs: the event loop does not starve a step.
SpecBatch == InitBatch /\ [][NextBatch]_vars /\ WF_vars(NextBatch)

-----------------------------------------------------------------------------
(* Claims about batchProcess, checked under SpecBatch *)

\* The returned list has one entry per input file, in input order; the
\* entry of a file whose handling failed has svg = null and an error
\* message, the entry of any other file has its markup.
OneEntryPerFile ==
  /\ Len(ret.entries) = Len(call.files)
  /\ \A k \in 1..Len(ret.entries) :
       /\ ret.entries[k].fileName = call.files[k].name
       /\ IF call.files[k].fault = "none"
          THEN ret.entries[k].svg \in DisplayedMarkups /\ ret.entries[k].error = ""
          ELSE ret.entries[k].svg = None /\ ret.entries[k].error # ""

\* C14: a failure while one image is handled (reading, decoding,
\* converting) is caught and recorded with svg = null and an error message,
\* the later files are still processed, and the list returned has exactly
\* one entry per input file in input order: batchProcess returns, and what
\* it returns is that list.
C14_FailureIsolated ==
  /\ [](Done("batchProcess") => OneEntryPerFile)
  /\ <>Done("batchProcess")

-----------------------------------------------------------------------------
(* Claims about startProcessing, checked under SpecMarkup *)

\* The positions of startProcessing in the order the claim gives them.
StageOrder ==
  <<"preprocess", "trace", "simplify", "smooth", "merge", "removeSmall",
    "outline", "group", "colour", "display", "done", "exported">>

Position(at) == CHOOSE i \in 1..Len(StageOrder) : StageOrder[i] = at

C16_ExportIsPipelineMarkup ==
  /\ (pc = "exported" /\ call.fn = "startProcessing") =>
       download.fullSVG.paths = svg.paths
  /\ (Done("startProcessing") /\ opts.value = "normal" /\ ret # Spinner) =>
       ret = svg

-----------------------------------------------------------------------------
(* Further claims about parsePathData, checked under SpecPath *)

\* The number of parameters the path grammar gives a command letter.
Arity(c) ==
  CASE LowerCase(c) \in {"m", "l", "t"} -> 2
    [] LowerCase(c) \in {"h", "v"} -> 1
    [] LowerCase(c) = "c" -> 6
    [] LowerCase(c) \in {"s", "q"} -> 4
    [] LowerCase(c) = "a" -> 7
    [] OTHER -> 0

\* Text in which no command is well formed: it has no command letter at
\* all, or every command letter comes with fewer parameters than it needs.
IsMalformed(pathData) ==
  \A i \in 1..Len(pathData) : Len(pathData[i].a) < Arity(pathData[i].c)

\* C17: for empty text and for malformed text (no command letter, command
\* letters with missing parameters) parsePathData returns the empty point
\* sequence.
C17_MalformedParsesToNothing ==
  (Done("parsePathData") /\ IsMalformed(call.pathData)) => ret = <<>>

\* Commands M, L, H, V, Z in either case, each with the parameters the
\* grammar gives it.
IsWellFormed(pathData) ==
  \A i \in 1..Len(pathData) :
    /\ LowerCase(pathData[i].c) \in {"m", "l", "h", "v", "z"}
    /\ Len(pathData[i].a) = Arity(pathData[i].c)

\* The points the commands denote, by the path grammar: the cursor after
\* each M, L, H, V command, and the start point for a Z that finds the
\* cursor away from it.
RECURSIVE TrackedPoints(_, _, _, _, _)
TrackedPoints(pathData, i, pen, start, points) ==
  IF i > Len(pathData) THEN points
  ELSE LET c == pathData[i].c
           a == pathData[i].a
           base == IF IsRelative(c) THEN pen ELSE <<0, 0>>
           to == CASE LowerCase(c) \in {"m", "l"} ->
                        <<base[1] + a[1], base[2] + a[2]>>
                   [] LowerCase(c) = "h" -> <<base[1] + a[1], pen[2]>>
                   [] LowerCase(c) = "v" -> <<pen[1], base[2] + a[1]>>
                   [] OTHER -> start
       IN  TrackedPoints(pathData, i + 1, to,
                         IF LowerCase(c) = "m" THEN to ELSE start,
                         IF LowerCase(c) = "z" /\ pen = start THEN points
                         ELSE Append(points, to))

\* C18: parsePathData tracks the cursor exactly.  On text made of
\* well-formed M, L, H, V, Z commands the points returned are the points
\* the commands denote: the (x, y) of an absolute M or L, also when a
\* coordinate is 0; one axis set by H or V, the other kept; the parameters
\* of a relative command added to the cursor; the start point that of the
\* latest MoveTo.
C18_CursorTrackedExactly ==
  (Done("parsePathData") /\ IsWellFormed(call.pathData)) =>
    [k \in 1..Len(ret) |-> XY(ret[k])]
      = TrackedPoints(call.pathData, 1, <<0, 0>>, <<0, 0>>, <<>>)

-----------------------------------------------------------------------------
(* Further claims about mergeSVGPaths, checked under SpecMarkup *)

\* The last point of d1 is the first point of d2 (within 0.1 on each axis,
\* which on whole numbers is equality), for the points the path grammar
\* gives or for the points parsePathData returns.
EndMeetsStart(d1, d2) ==
  \/ LastPoint(d1) = FirstPoint(d2)
  \/ LET points1 == parsePathData(d1)
         points2 == parsePathData(d2)
     IN  /\ Len(points1) > 0
         /\ Len(points2) > 0
         /\ XY(points1[Len(points1)]) = XY(points2[1])

\* Two paths the merger may fuse: same colour string, and one ends where
\* the other starts.
MayFuse(path1, path2) ==
  /\ extractPathColor(path1) = extractPathColor(path2)
  /\ EndMeetsStart(path1.d, path2.d) \/ EndMeetsStart(path2.d, path1.d)

\* C19: paths are fused only if they have the same colour string and the
\* last point of one is within 0.1 on each axis of the first point of the
\* other, in either direction.  So in markup (with its container) in which
\* no two paths meet this condition, such as paths whose coordinates differ
\* in sign or that end in H, V or Z away from the other's start, nothing is
\* fused: the path data of the output are those of the input, one element
\* per input element.
C19_OnlyAdjacentFused ==
  (/\ Done("mergeSVGPaths")
   /\ call.svg.tag
   /\ \A i, j \in 1..Len(call.svg.paths) :
        i # j => ~MayFuse(call.svg.paths[i], call.svg.paths[j])) =>
    /\ Len(ret.paths) = Len(call.svg.paths)
    /\ {ret.paths[i].d : i \in 1..Len(ret.paths)}
         = {call.svg.paths[i].d : i \in 1..Len(call.svg.paths)}

-----------------------------------------------------------------------------
(* Further claims about reduceColorCount, checked under SpecMarkup *)

\* The clusters the call builds, as sequences of indices into the colours
\* of the markup.
ClustersOf(markup, maxColors) ==
  ColorGroupsFrom(UniqueColors(ColorAttributes(markup), <<>>), maxColors, 1,
                  {}, <<>>)

\* The colour an attribute that held old is to hold: the rounded mean of
\* the cluster old is a member of; an attribute whose value is in no
\* cluster keeps it.
OwnMean(colors, colorGroups, old) ==
  IF \E n \in 1..Len(colorGroups) : \E k \in 1..Len(colorGroups[n]) :
       colors[colorGroups[n][k]] = old
  THEN LET n == CHOOSE n \in 1..Len(colorGroups) :
                  \E k \in 1..Len(colorGroups[n]) :
                    colors[colorGroups[n][k]] = old
       IN  RoundedMean([k \in 1..Len(colorGroups[n]) |->
                          colors[colorGroups[n][k]]])
  ELSE old

\* C20: when reduceColorCount reduces colours, every member of a cluster is
\* within 2 * 255 / maxColors of the cluster's first colour, the clusters
\* start in first-seen order, every colour whose channels can be read is in
\* exactly one cluster, and in the output every fill / stroke that held a
\* member colour holds the rounded mean colour of that member's own
\* cluster (it is not rewritten again by the rule of another cluster).
C20_MembersHoldOwnMean ==
  (/\ Done("reduceColorCount")
   /\ InLevelDomain(call.maxColors)
   /\ Len(UniqueColors(ColorAttributes(call.svg), <<>>)) > call.maxColors) =>
    LET colors == UniqueColors(ColorAttributes(call.svg), <<>>)
        colorGroups == ClustersOf(call.svg, call.maxColors)
    IN  /\ \A n \in 1..Len(colorGroups) : \A k \in 2..Len(colorGroups[n]) :
             IsSimilar(colors[colorGroups[n][1]], colors[colorGroups[n][k]],
                       call.maxColors)
        /\ \A n \in 1..(Len(colorGroups) - 1) :
             colorGroups[n][1] < colorGroups[n + 1][1]
        /\ \A i \in 1..Len(colors) :
             CanParse(colors[i]) =>
               Cardinality({nk \in {<<n, k>> : n \in 1..Len(colorGroups),
                                               k \in 1..Len(colors)} :
                              /\ nk[2] <= Len(colorGroups[nk[1]])
                              /\ colorGroups[nk[1]][nk[2]] = i}) = 1
        /\ Len(ret.paths) = Len(call.svg.paths)
        /\ \A i \in 1..Len(ret.paths) :
             /\ ret.paths[i].fill
                  = OwnMean(colors, colorGroups, call.svg.paths[i].fill)
             /\ ret.paths[i].stroke
                  = OwnMean(colors, colorGroups, call.svg.paths[i].stroke)

-----------------------------------------------------------------------------
(* Further claims about extractSubject, checked under SpecSubject *)

\* Nine times the square of the Sobel gradient magnitude at an interior
\* pixel, on the gray values (r + g + b) / 3, as the 3 x 3 operator defines
\* it (no storage width).
NineGradientSquared(imageData, idx) ==
  LET width == imageData.width
      x == idx % width
      y == idx \div width
      sum3(kx, ky) == LET px == imageData.data[(y + ky) * width + (x + kx)]
                      IN  px.r + px.g + px.b
      gx3 == (sum3(1, -1) + 2 * sum3(1, 0) + sum3(1, 1))
             - (sum3(-1, -1) + 2 * sum3(-1, 0) + sum3(-1, 1))
      gy3 == (sum3(-1, 1) + 2 * sum3(0, 1) + sum3(1, 1))
             - (sum3(-1, -1) + 2 * sum3(0, -1) + sum3(1, -1))
  IN  gx3 * gx3 + gy3 * gy3

IsInterior(imageData, idx) ==
  /\ idx % imageData.width >= 1
  /\ idx % imageData.width < imageData.width - 1
  /\ idx \div imageData.width >= 1
  /\ idx \div imageData.width < imageData.height - 1

\* C21: with detectEdges set, every interior pixel whose gradient magnitude
\* is greater than 30 keeps its source RGBA in the output, whatever the
\* magnitude (256 and above included).
C21_StrongEdgeIsForeground ==
  (Done("extractSubject") /\ call.options.detectEdges) =>
    \A i \in DOMAIN call.imageData.data :
      (/\ IsInterior(call.imageData, i)
       /\ NineGradientSquared(call.imageData, i) > 9 * 30 * 30) =>
        ret.data[i] = call.imageData.data[i]

-----------------------------------------------------------------------------
(* pathgroup.js: getPathCenter, groupPathsByProximity *)

\* getPathCenter: the sums of the coordinates of the parsed points and
\* their number (the centre is sumX / n, sumY / n); None for a path that
\* parses to no point.
getPathCenter(pathData) ==
  LET points == parsePathData(pathData)
  IN  IF Len(points) = 0 THEN None
      ELSE [sumX |-> SumSeq([k \in 1..Len(points) |-> points[k].x]),
            sumY |-> SumSeq([k \in 1..Len(points) |-> points[k].y]),
            n |-> Len(points)]

\* Variant: the distance may equal the threshold.
IsNearOrAt(c1, c2, proximityThreshold) ==
  LET dx == c1.sumX * c2.n - c2.sumX * c1.n
      dy == c1.sumY * c2.n - c2.sumY * c1.n
  IN  /\ proximityThreshold >= 0
      /\ dx * dx + dy * dy
           <= proximityThreshold * proximityThreshold * c1.n * c1.n * c2.n * c2.n

\* distance < proximityThreshold, on the two centres
IsNear(c1, c2, proximityThreshold) ==
  LET dx == c1.sumX * c2.n - c2.sumX * c1.n
      dy == c1.sumY * c2.n - c2.sumY * c1.n
  IN  /\ proximityThreshold > 0
      /\ dx * dx + dy * dy
           < proximityThreshold * proximityThreshold * c1.n * c1.n * c2.n * c2.n

\* The loop that sets paths[i].group, from index i on: centers is the
\* sequence of the centres of the collected paths, group the group of each
\* (-1: none yet).
RECURSIVE ProximityGroupsFrom(_, _, _, _, _)
ProximityGroupsFrom(centers, proximityThreshold, i, currentGroup, group) ==
  IF i > Len(centers) THEN group
  ELSE IF group[i] # -1
    THEN ProximityGroupsFrom(centers, proximityThreshold, i + 1, currentGroup,
                             group)
  ELSE ProximityGroupsFrom(centers, proximityThreshold, i + 1, currentGroup + 1,
         [j \in 1..Len(centers) |->
            IF j = i THEN currentGroup
            ELSE IF /\ j > i
                    /\ group[j] = -1
                    /\ IsNear(centers[i], centers[j], proximityThreshold)
              THEN currentGroup
            ELSE group[j]])

\* groupPathsByProximity.  The collected paths (those with a d attribute
\* that parses to a point) are taken out of the text and written after the
\* <svg> tag group by group, the groups in increasing id, a group of more
\* than one path inside <g id="group-proximity-id">; what is left of the
\* text (the other paths among it) follows.  proximityGroup[k] is the id of
\* the <g> element the k-th path of the output is in, -1 if it is in none.
groupPathsByProximity(markup, proximityThreshold) ==
  LET collected == SelectSeq(markup.paths,
                             LAMBDA path : /\ path.d # <<>>
                                           /\ getPathCenter(path.d) # None)
      left == SelectSeq(markup.paths,
                        LAMBDA path : \/ path.d = <<>>
                                      \/ getPathCenter(path.d) = None)
      centers == [k \in 1..Len(collected) |-> getPathCenter(collected[k].d)]
      group == ProximityGroupsFrom(centers, proximityThreshold, 1, 0,
                                   [k \in 1..Len(collected) |-> -1])
      members(id) == SelectSeq([k \in 1..Len(collected) |-> k],
                               LAMBDA k : group[k] = id)
      ordered == FlattenSeq([n \in 1..Len(collected) |-> members(n - 1)])
  IN  IF Len(collected) = 0 \/ ~markup.tag
      THEN [tag |-> markup.tag, paths |-> markup.paths,
            proximityGroup |-> [k \in 1..Len(markup.paths) |-> -1]]
      ELSE [tag |-> TRUE,
            paths |-> [k \in 1..Len(ordered) |->
                         [collected[ordered[k]] EXCEPT !.group = NoColor]]
                      \o left,
            proximityGroup |->
              [k \in 1..Len(ordered) |->
                 IF Len(members(group[ordered[k]])) > 1
                 THEN group[ordered[k]] ELSE -1]
              \o [k \in 1..Len(left) |-> -1]]

-----------------------------------------------------------------------------
(* The grouping functions as operations *)

MaxGroupPaths == 4

\* Paths for the proximity grouping, with pairwise distinct data: centres
\* 3 apart on a line, a two-point path, and a path without points.
ProximityElements ==
  {Path(Red, NoColor, <<Cmd("M", <<1 + 3 * k, 1>>)>>) : k \in 0..3}
  \cup {Path(Blue, NoColor, <<Cmd("M", <<1, 1>>), Cmd("L", <<3, 5>>)>>),
        Path(Blue, NoColor, <<Cmd("Q", <<1>>)>>)}

\* Sequences of pairwise distinct elements of S, of length at most n.
DistinctSeqsUpTo(S, n) ==
  {s \in SeqsUpTo(S, n) : \A i, j \in 1..Len(s) : i # j => s[i] # s[j]}

ProximityThresholds == {0, 3, 4, 7}

\* Paths for the colour grouping: fills, strokes, both, neither, and the
\* outline stage's fill "none".
PaintedElements ==
  {Path(Red, NoColor, ScenarioB1), Path(Red, Blue, ScenarioB1),
   Path(NoColor, Red, ScenarioB2), Path(NoColor, NoColor, ScenarioB1),
   Path(Hex(0, 0, 0), NoColor, ScenarioB2),
   [Path(Named("none"), Red, ScenarioB1) EXCEPT !.strokeWidth = 2],
   [Path(Named("none"), Blue, ScenarioB2) EXCEPT !.strokeWidth = 2]}

GroupCalls(c) ==
  \/ \E tag \in BOOLEAN, ps \in DistinctSeqsUpTo(ProximityElements, MaxGroupPaths),
        t \in ProximityThresholds :
       c = [fn |-> "groupPathsByProximity", svg |-> Markup(tag, ps),
            proximityThreshold |-> t]
  \/ \E tag \in BOOLEAN, ps \in SeqsUpTo(PaintedElements, MaxGroupPaths - 1) :
       c = [fn |-> "groupPathsByColor", svg |-> Markup(tag, ps)]

CallGroupPathsByProximity ==
  Returns("groupPathsByProximity",
          groupPathsByProximity(call.svg, call.proximityThreshold))

CallGroupPathsByColor ==
  Returns("groupPathsByColor", groupPathsByColor(call.svg))

InitGroup == pc = "ready" /\ GroupCalls(call) /\ ret = None /\ PipelineIdle

NextGroup == CallGroupPathsByProximity \/ CallGroupPathsByColor

SpecGroup == InitGroup /\ [][NextGroup]_vars

-----------------------------------------------------------------------------
(* Claims about the grouping functions, checked under SpecGroup *)

\* The centres of two paths are closer than the threshold.
CentresNear(path1, path2, threshold) ==
  LET p1 == parsePathData(path1.d)
      p2 == parsePathData(path2.d)
      n1 == Len(p1)
      n2 == Len(p2)
      dx == n2 * SumSeq([k \in 1..n1 |-> p1[k].x]) - n1 * SumSeq([k \in 1..n2 |-> p2[k].x])
      dy == n2 * SumSeq([k \in 1..n1 |-> p1[k].y]) - n1 * SumSeq([k \in 1..n2 |-> p2[k].y])
  IN  /\ threshold > 0
      /\ dx * dx + dy * dy < threshold * threshold * n1 * n1 * n2 * n2

Painted(path) ==
  [d |-> path.d,
   fill |-> IF path.fill # NoColor THEN path.fill ELSE path.group,
   stroke |-> IF path.stroke # NoColor THEN path.stroke ELSE path.group]

\* C26: groupPathsByColor changes neither the number of paths nor how any
\* of them is painted: every input path appears exactly once in the
\* output, with the effective fill and the effective stroke it had.
C26_GroupingKeepsPaint ==
  Done("groupPathsByColor") =>
    /\ Len(ret.paths) = Len(call.svg.paths)
    /\ \A i \in 1..Len(call.svg.paths) :
         LET painted == Painted(call.svg.paths[i])
         IN  Cardinality({k \in 1..Len(ret.paths) : Painted(ret.paths[k]) = painted})
               = Cardinality({k \in 1..Len(call.svg.paths) :
                                Painted(call.svg.paths[k]) = painted})

-----------------------------------------------------------------------------
(* Further claims about douglasPeucker, checked under SpecPath *)

\* The point p is within the distance tolerance of the segment from a to
\* b: of the nearest point of the segment, which is a when the foot of the
\* perpendicular falls before a, b when it falls after b, and the foot
\* otherwise.
WithinOfSegment(p, a, b, tolerance) ==
  LET ab  == <<b.x - a.x, b.y - a.y>>
      ap  == <<p.x - a.x, p.y - a.y>>
      bp  == <<p.x - b.x, p.y - b.y>>
      along == ap[1] * ab[1] + ap[2] * ab[2]
      len2  == ab[1] * ab[1] + ab[2] * ab[2]
      cross == ap[1] * ab[2] - ap[2] * ab[1]
  IN  IF len2 = 0 \/ along <= 0
        THEN ap[1] * ap[1] + ap[2] * ap[2] <= tolerance * tolerance
      ELSE IF along >= len2
        THEN bp[1] * bp[1] + bp[2] * bp[2] <= tolerance * tolerance
      ELSE cross * cross <= tolerance * tolerance * len2

\* out, from its k-th point on, is points from the i-th point on with runs
\* of points left out, every point of a run within tolerance of the segment
\* between the two kept points around the run; the last point is kept.
RECURSIVE KeepsFrom(_, _, _, _, _)
KeepsFrom(points, out, tolerance, i, k) ==
  /\ points[i] = out[k]
  /\ IF k = Len(out) THEN i = Len(points)
     ELSE \E j \in (i + 1)..Len(points) :
            /\ \A m \in (i + 1)..(j - 1) :
                 WithinOfSegment(points[m], points[i], points[j], tolerance)
            /\ KeepsFrom(points, out, tolerance, j, k + 1)

\* C27: the output of douglasPeucker is its input with points left out, in
\* the input's order, and every point left out is within tolerance of the
\* segment between the first and the last point of the run that was
\* collapsed when the point was dropped (the two kept points around it): no
\* point farther than tolerance from that segment is dropped.
C27_DroppedPointsWithinTolerance ==
  Done("douglasPeucker") =>
    IF Len(call.points) = 0 THEN ret = <<>>
    ELSE /\ Len(ret) >= 1
         /\ KeepsFrom(call.points, ret, call.tolerance, 1, 1)

\* C27 witness: of 4 points one interior point was dropped and the other
\* kept, and the dropped one is not on the segment it was collapsed to.
C27_Witness ==
  /\ Done("douglasPeucker")
  /\ Len(call.points) = 4
  /\ Len(ret) = 3
  /\ call.tolerance > 0
  /\ \E m \in 2..3 :
       /\ call.points[m] \notin {ret[k] : k \in 1..3}
       /\ ~WithinOfSegment(call.points[m], call.points[m - 1],
                           call.points[m + 1], 0)

\* C28: mergeSVGPaths keeps the document order of the paths it does not
\* fuse.  When no two paths of the markup are adjacent (no path ends where
\* another starts, by the points of the paths or by the merger's own test),
\* the sequence of path elements of the output is that of the input, also
\* with paths of different colours interleaved and also for markup without
\* a container tag.
C28_UnfusedPathsKeepOrder ==
  (/\ Done("mergeSVGPaths")
   /\ \A i, j \in 1..Len(call.svg.paths) :
        i # j => /\ ~EndMeetsStart(call.svg.paths[i].d, call.svg.paths[j].d)
                 /\ ~arePathsAdjacent(call.svg.paths[i].d, call.svg.paths[j].d)) =>
    ret.paths = call.svg.paths

-----------------------------------------------------------------------------
(* Further claims about batchProcess, checked under SpecBatch *)

\* C30: batchProcess always terminates.  Whatever happens to each file
\* (read error, decode error, a conversion that throws, a conversion that
\* succeeds), the promise of every item that is being processed eventually
\* settles and batchProcess eventually returns; and the items are handled
\* strictly one after another: processImage is called for an item only when
\* the promise of the previous item has settled and its entry is recorded.
C30_BatchTerminates ==
  /\ (batch.promise.state = "pending")
       ~> (batch.promise.state \in {"resolved", "rejected"})
  /\ <>Done("batchProcess")
  /\ [][(batch.promise.state # "pending" /\ batch'.promise.state = "pending") =>
          (batch.promise.state = "none" /\ Len(batch.results) = batch.i)]_vars

-----------------------------------------------------------------------------
(* patheditor.js: parsePathToPoints, pointsToPathData, removePoint,       *)
(* updatePoint, enablePathEditor                                          *)

\* The index field of a point is its place in the sequence.
parsePathToPoints(pathData) == parsePathData(pathData)

\* pointsToPathData of patheditor.js: "M x y" for the first point and
\* "<type> x y" for every other.
pointsToPathDataOfEditor(points) ==
  [i \in 1..Len(points) |->
     Cmd(IF i = 1 THEN "M" ELSE points[i].type, <<points[i].x, points[i].y>>)]

\* index counts from 1 here.
removePoint(points, index) ==
  IF index < 1 \/ index > Len(points) \/ Len(points) <= 2 THEN points
  ELSE SubSeq(points, 1, index - 1) \o SubSeq(points, index + 1, Len(points))

updatePoint(points, index, x, y) ==
  IF index < 1 \/ index > Len(points) THEN points
  ELSE [points EXCEPT ![index].x = x, ![index].y = y]

\* A marker of an overlay: where it is drawn, and the point index of the
\* closure whose listeners it carries (0 for a marker without listeners:
\* cloneNode does not copy listeners).
Marker(cx, cy, listener) == [cx |-> cx, cy |-> cy, listener |-> listener]

MaxEvents == 6

\* The paths the editor is enabled on: open polylines of 2, 3 and 4 points.
EditedData ==
  {<<Cmd("M", <<1, 1>>), Cmd("L", <<4, 1>>)>>,
   <<Cmd("M", <<1, 1>>), Cmd("L", <<4, 1>>), Cmd("L", <<4, 4>>)>>,
   <<Cmd("M", <<1, 1>>), Cmd("L", <<4, 1>>), Cmd("L", <<4, 4>>),
     Cmd("L", <<1, 4>>)>>,
   <<Cmd("M", <<0, 0>>), Cmd("L", <<4, 0>>), Cmd("L", <<4, 4>>),
     Cmd("L", <<0, 4>>)>>}

\* Where the pointer can be moved to, in the coordinates of the drawing.
PointerPositions == {<<2, 2>>, <<5, 3>>}

\* The event delivered last: its kind, the marker it was delivered to
\* (path and place in the overlay, 0 when it hit no marker), the pointer
\* position, whether the button is down after it and on which marker it
\* went down, and the number of events so far.
Event(kind, path, node, x, y, down, pressed, n) ==
  [fn |-> "enablePathEditor", event |-> kind, path |-> path, node |-> node,
   x |-> x, y |-> y, down |-> down, pressed |-> pressed, n |-> n]

\* enablePathEditor(svgElement, onUpdate) has run: every path has an
\* overlay with one marker per parsed point, each with its listeners; the
\* closures hold the parsed points and isDragging = false.
InitEditor ==
  /\ pc = "editing"
  /\ \E ds \in {<<d>> : d \in EditedData}
             \cup {<<d1, d2>> : d1 \in EditedData, d2 \in {ScenarioB1}} :
       /\ svg = [paths |->
                   [p \in 1..Len(ds) |->
                      [d |-> ds[p],
                       overlay |->
                         [k \in 1..Len(parsePathToPoints(ds[p])) |->
                            Marker(parsePathToPoints(ds[p])[k].x,
                                   parsePathToPoints(ds[p])[k].y, k)]]]]
       /\ opts = [points |-> [p \in 1..Len(ds) |-> parsePathToPoints(ds[p])],
                  isDragging |-> {}]
  /\ call = Event("none", 0, 0, 0, 0, FALSE, <<0, 0>>, 0)
  /\ ret = [updates |-> <<>>]
  /\ batch = None
  /\ download = None

\* The closure a marker's listeners belong to: <<path, point index>>, or
\* <<0, 0>> for no marker or a marker without listeners.
ListenerOf(path, node) ==
  IF node = 0 \/ svg.paths[path].overlay[node].listener = 0 THEN <<0, 0>>
  ELSE <<path, svg.paths[path].overlay[node].listener>>

\* The places a pointer event can hit: no marker, or a marker of an overlay.
Targets ==
  {<<0, 0>>}
  \cup UNION {{<<p, m>> : m \in 1..Len(svg.paths[p].overlay)} :
               p \in 1..Len(svg.paths)}

\* mousedown: the listener of the marker hit sets isDragging.
MouseDown ==
  /\ pc = "editing"
  /\ call.n < MaxEvents
  /\ ~call.down
  /\ \E t \in Targets :
       /\ call' = Event("mousedown", t[1], t[2], call.x, call.y, TRUE, t,
                        call.n + 1)
       /\ opts' = [opts EXCEPT !.isDragging =
                     IF ListenerOf(t[1], t[2]) = <<0, 0>> THEN @
                     ELSE @ \cup {ListenerOf(t[1], t[2])}]
  /\ UNCHANGED <<pc, ret, svg, batch, download>>

\* The mousemove listener of the closure c = <<path, pointIndex>>, when its
\* isDragging is set: d, the marker and the points array are rewritten.
MovedPaths(paths, c, x, y) ==
  [paths EXCEPT ![c[1]] =
     [d |-> pointsToPathDataOfEditor(updatePoint(opts.points[c[1]], c[2], x, y)),
      overlay |-> [@.overlay EXCEPT ![c[2]].cx = x, ![c[2]].cy = y]]]

\* mousemove on the document: every closure's listener runs; at most one
\* closure has isDragging set, since the button goes down on one marker.
MouseMove ==
  /\ pc = "editing"
  /\ call.n < MaxEvents
  /\ \E pos \in PointerPositions :
       /\ call' = Event("mousemove", 0, 0, pos[1], pos[2], call.down,
                        call.pressed, call.n + 1)
       /\ IF opts.isDragging = {} THEN UNCHANGED <<svg, opts>>
          ELSE LET c == CHOOSE c \in opts.isDragging : TRUE
               IN  /\ svg' = [svg EXCEPT !.paths = MovedPaths(@, c, pos[1], pos[2])]
                   /\ opts' = [opts EXCEPT !.points[c[1]] =
                                 updatePoint(@, c[2], pos[1], pos[2])]
  /\ UNCHANGED <<pc, ret, batch, download>>

\* mouseup on the document: a closure whose isDragging is set clears it and
\* calls onUpdate(path, path.getAttribute('d')).
MouseUp ==
  /\ pc = "editing"
  /\ call.n < MaxEvents
  /\ call.down
  /\ call' = Event("mouseup", 0, 0, call.x, call.y, FALSE, call.pressed,
                   call.n + 1)
  /\ opts' = [opts EXCEPT !.isDragging = {}]
  /\ ret' = IF opts.isDragging = {} THEN ret
            ELSE LET c == CHOOSE c \in opts.isDragging : TRUE
                 IN  [updates |-> Append(ret.updates,
                                         [path |-> c[1], d |-> svg.paths[c[1]].d])]
  /\ UNCHANGED <<pc, svg, batch, download>>

\* dblclick on a marker, which the browser delivers after the release of a
\* press on that marker: its listener, if it has one, writes the points
\* without its own point to d, empties the overlay, fills it with clones of
\* the marker (one per point left) and calls onUpdate.  The closures' points
\* array is not assigned.
DblClick ==
  /\ pc = "editing"
  /\ call.n < MaxEvents
  /\ call.event = "mouseup"
  /\ \E t \in Targets \ {<<0, 0>>} :
       /\ t = call.pressed
       /\ call' = Event("dblclick", t[1], t[2], call.x, call.y, FALSE,
                        call.pressed, call.n + 1)
       /\ IF ListenerOf(t[1], t[2]) = <<0, 0>> THEN UNCHANGED <<svg, ret>>
          ELSE LET c == ListenerOf(t[1], t[2])
                   updatedPoints == removePoint(opts.points[c[1]], c[2])
                   newPathData == pointsToPathDataOfEditor(updatedPoints)
               IN  /\ svg' = [svg EXCEPT !.paths[c[1]] =
                                [d |-> newPathData,
                                 overlay |->
                                   [k \in 1..Len(updatedPoints) |->
                                      Marker(updatedPoints[k].x,
                                             updatedPoints[k].y, 0)]]]
                   /\ ret' = [updates |-> Append(ret.updates,
                                [path |-> c[1], d |-> newPathData])]
  /\ UNCHANGED <<pc, opts, batch, download>>

NextEditor == MouseDown \/ MouseMove \/ MouseUp \/ DblClick

SpecEditor == InitEditor /\ [][NextEditor]_vars

-----------------------------------------------------------------------------
(* Claims about the path node editor, checked under SpecEditor *)

\* The button is down and it went down on a marker.
DraggingMarker == call.down /\ call.pressed # <<0, 0>>

\* The data of the edited paths.
PathData(s) == [p \in 1..Len(s.paths) |-> s.paths[p].d]

\* C23: while the button is down on a marker, every pointer-move rewrites d
\* of the marker's path at once, with the marker's point at the pointer
\* position and every other point as it was; the release of the button
\* calls onUpdate once, for that path with its d; and a pointer-move or a
\* release with no marker pressed changes no path and calls nothing, nor
\* does a press.
C23_DragUpdatesPath ==
  [][/\ call'.event = "mousemove" =>
          /\ ret' = ret
          /\ PathData(svg') =
               IF DraggingMarker
               THEN [PathData(svg) EXCEPT ![call.pressed[1]][call.pressed[2]].a =
                                             <<call'.x, call'.y>>]
               ELSE PathData(svg)
     /\ call'.event = "mouseup" =>
          /\ svg' = svg
          /\ ret'.updates =
               IF call.pressed # <<0, 0>>
               THEN Append(ret.updates,
                           [path |-> call.pressed[1],
                            d |-> svg.paths[call.pressed[1]].d])
               ELSE ret.updates
     /\ call'.event = "mousedown" => svg' = svg /\ ret' = ret]_vars

\* The polyline d without its k-th point, written as a path: the first
\* point left is moved to, the others keep their command.
Without(d, k) ==
  LET left == SubSeq(d, 1, k - 1) \o SubSeq(d, k + 1, Len(d))
  IN  [i \in 1..Len(left) |-> Cmd(IF i = 1 THEN "M" ELSE left[i].c, left[i].a)]

\* C25: a double-click on a marker of a path of more than 2 points writes
\* the point list without the marker's point to d; on a path of at most 2
\* points it leaves d as it is; after it the overlay shows one marker per
\* point of d, at the point's place.  This holds for every double-click,
\* the ones after earlier deletions and drags included: every marker shown
\* responds.
C25_DeletionRewritesPath ==
  [][call'.event = "dblclick" =>
       LET p == call'.path
           d == svg.paths[p].d
       IN  /\ svg'.paths[p].d =
                IF Len(d) > 2 THEN Without(d, call'.node) ELSE d
           /\ Len(svg'.paths[p].overlay) = Len(svg'.paths[p].d)
           /\ \A k \in 1..Len(svg'.paths[p].d) :
                <<svg'.paths[p].overlay[k].cx, svg'.paths[p].overlay[k].cy>>
                  = svg'.paths[p].d[k].a]_vars

-----------------------------------------------------------------------------
(* patheditor.js: applyCannyEdgeDetection                                  *)
(*                                                                         *)
(* The arrays are sequences, the element of index i at place i + 1.  The   *)
(* inputs are images of grey pixels (r = g = b), for which the grey value  *)
(* stored in the Float32Array is r itself; the blurred values are kept     *)
(* times 16 and the gradients with them, so a magnitude is kept as 256     *)
(* times its square and magnitudes are compared through these squares.     *)

InteriorAt(width, height, i) ==
  /\ i % width >= 1 /\ i % width < width - 1
  /\ i \div width >= 1 /\ i \div width < height - 1

\* The sum over the 3x3 window around index i of values times kernel.
KernelSum(values, width, i, kernel) ==
  SumSeq([n \in 1..9 |->
    LET ky == ((n - 1) \div 3) - 1
        kx == ((n - 1) % 3) - 1
    IN  values[i + ky * width + kx + 1] * kernel[ky + 2][kx + 2]])

\* blurred (times 16): computed for the interior pixels, 0 on the border.
Blurred(imageData) ==
  LET width == imageData.width
      height == imageData.height
      grayData == <<>> \o [k \in 1..(width * height) |-> imageData.data[k - 1].r]
  IN  <<>> \o [k \in 1..(width * height) |->
        IF InteriorAt(width, height, k - 1)
        THEN KernelSum(grayData, width, k - 1,
                       <<<<1, 2, 1>>, <<2, 4, 2>>, <<1, 2, 1>>>>)
        ELSE 0]

\* <<gx, gy>> (times 16) of the interior pixels, <<0, 0>> on the border.
Gradients(blurred, width, height) ==
  <<>> \o [k \in 1..(width * height) |->
    IF InteriorAt(width, height, k - 1)
    THEN <<KernelSum(blurred, width, k - 1,
                     <<<<-1, 0, 1>>, <<-2, 0, 2>>, <<-1, 0, 1>>>>),
           KernelSum(blurred, width, k - 1,
                     <<<<-1, -2, -1>>, <<0, 0, 0>>, <<1, 2, 1>>>>)>>
    ELSE <<0, 0>>]

\* The branch of the non-maximum suppression the angle
\* (atan2(gy, gx) * 180 / PI + 180) % 180 selects: "h" for [0, 22.5) and
\* [157.5, 180), "d1" for [22.5, 67.5), "v" for [67.5, 112.5), "d2" for
\* the rest.  tan 22.5 = sqrt(2) - 1 and tan 67.5 = sqrt(2) + 1.
Sector(g) ==
  LET ax == Abs(g[1])
      ay == Abs(g[2])
  IN  IF (ay + ax) * (ay + ax) < 2 * ax * ax \/ (ax = 0 /\ ay = 0) THEN "h"
      ELSE IF ay >= ax /\ (ay - ax) * (ay - ax) > 2 * ax * ax THEN "v"
      ELSE IF (g[1] > 0) = (g[2] > 0) THEN "d1"
      ELSE "d2"

\* suppressed: the magnitude where it is not below either of the two
\* neighbours along the gradient, else 0.
Suppressed(gradients, width, height) ==
  LET magnitude == <<>> \o [k \in 1..(width * height) |->
                      gradients[k][1] * gradients[k][1]
                      + gradients[k][2] * gradients[k][2]]
  IN  <<>> \o [k \in 1..(width * height) |->
        IF ~InteriorAt(width, height, k - 1) THEN 0
        ELSE LET sector == Sector(gradients[k])
                 step == CASE sector = "h" -> 1
                           [] sector = "d1" -> width - 1
                           [] sector = "v" -> width
                           [] sector = "d2" -> width + 1
             IN  IF magnitude[k] >= magnitude[k - step]
                    /\ magnitude[k] >= magnitude[k + step]
                 THEN magnitude[k] ELSE 0]

\* value >= threshold for a value kept as 256 times its square
ReachesThreshold(value, threshold) ==
  threshold <= 0 \/ value >= 256 * threshold * threshold

\* The indices of the 8 neighbours of i that are inside the image.
EightNeighbours(width, height, i) ==
  {n \in 0..(width * height - 1) :
     /\ n # i
     /\ Abs((n % width) - (i % width)) <= 1
     /\ Abs((n \div width) - (i \div width)) <= 1}

\* Variant: a weak pixel is connected only through a neighbour that is
\* strong.
HasMarkedNeighbour(suppressed, width, height, highThreshold, edgeData, i) ==
  \E n \in EightNeighbours(width, height, i) :
    ReachesThreshold(suppressed[n + 1], highThreshold)

\* connected: a neighbour is marked in edgeData so far, or is strong.
IsConnected(suppressed, width, height, highThreshold, edgeData, i) ==
  \E n \in EightNeighbours(width, height, i) :
    \/ n + 1 <= Len(edgeData) /\ edgeData[n + 1] = 255
    \/ ReachesThreshold(suppressed[n + 1], highThreshold)

\* The hysteresis loop from index i on; edgeData holds the i values written
\* so far (the entries not yet written are 0).
RECURSIVE HysteresisFrom(_, _, _, _, _, _, _)
HysteresisFrom(suppressed, width, height, low, high, i, edgeData) ==
  LET value == IF ReachesThreshold(suppressed[i + 1], high) THEN 255
               ELSE IF /\ ReachesThreshold(suppressed[i + 1], low)
                       /\ IsConnected(suppressed, width, height, high,
                                      edgeData, i)
                 THEN 255
               ELSE 0
  IN  IF i >= width * height \/ Len(edgeData) # i THEN edgeData
      ELSE IF value = 255
        THEN HysteresisFrom(suppressed, width, height, low, high, i + 1,
                            Append(edgeData, 255))
      ELSE HysteresisFrom(suppressed, width, height, low, high, i + 1,
                          Append(edgeData, 0))

\* options: given tells whether thresholds were passed (defaults 50, 100).
CannyThresholds(options) ==
  IF options.given THEN <<options.lowThreshold, options.highThreshold>>
  ELSE <<50, 100>>

applyCannyEdgeDetection(imageData, options) ==
  LET width == imageData.width
      height == imageData.height
      suppressed == Suppressed(Gradients(Blurred(imageData), width, height),
                               width, height)
      edgeData == HysteresisFrom(suppressed, width, height,
                                 CannyThresholds(options)[1],
                                 CannyThresholds(options)[2], 0, <<>>)
  IN  ImageData(width, height,
        [i \in 0..(width * height - 1) |->
           Pixel(edgeData[i + 1], edgeData[i + 1], edgeData[i + 1], 255)])

-----------------------------------------------------------------------------
(* Inputs of applyCannyEdgeDetection *)

MaxCannySide == 5

\* A 5 x 4 image of grey levels, as its rows.
ScenarioF ==
  <<40, 80, 0, 200, 40,
    0, 0, 80, 200, 0,
    80, 40, 40, 0, 80,
    40, 0, 40, 0, 40>>

GreyImage(width, height, levels) ==
  ImageData(width, height,
    [i \in 0..(width * height - 1) |-> Gray(levels[i + 1], 255)])

CannyOptions ==
  {[given |-> TRUE, lowThreshold |-> t[1], highThreshold |-> t[2]] :
     t \in {<<1, 1>>, <<50, 100>>, <<200, 300>>, <<150, 300>>, <<300, 400>>,
            <<2000, 2000>>}}
  \cup {[given |-> FALSE, lowThreshold |-> 0, highThreshold |-> 0]}

\* Images of one colour of every size, and ScenarioF with one pixel set to
\* another grey level.
CannyCalls(c) ==
  \E options \in CannyOptions :
    \/ \E width \in 1..MaxCannySide, height \in 1..MaxCannySide,
          v \in {0, 100, 200} :
         c = [fn |-> "applyCannyEdgeDetection",
              imageData |-> GreyImage(width, height,
                                      [k \in 1..(width * height) |-> v]),
              options |-> options]
    \/ \E at \in 1..Len(ScenarioF), v \in {0, 40, 80, 200} :
         c = [fn |-> "applyCannyEdgeDetection",
              imageData |-> GreyImage(5, 4, [ScenarioF EXCEPT ![at] = v]),
              options |-> options]

CallApplyCannyEdgeDetection ==
  Returns("applyCannyEdgeDetection",
          applyCannyEdgeDetection(call.imageData, call.options))

InitCanny == pc = "ready" /\ CannyCalls(call) /\ ret = None /\ PipelineIdle

NextCanny == CallApplyCannyEdgeDetection

SpecCanny == InitCanny /\ [][NextCanny]_vars

-----------------------------------------------------------------------------
(* Claims about applyCannyEdgeDetection, checked under SpecCanny *)

\* The non-maximum-suppressed magnitudes of the call's image.
SuppressedOfCall ==
  Suppressed(Gradients(Blurred(call.imageData), call.imageData.width,
                       call.imageData.height),
             call.imageData.width, call.imageData.height)

\* The pixel i is marked by one pass in raster order: it is strong (its
\* value reaches high), or it is weak (its value reaches low) and one of
\* its 8 neighbours is strong or comes earlier in the order and is marked.
RECURSIVE MarkedInPass(_, _, _, _, _, _)
MarkedInPass(values, width, height, low, high, i) ==
  \/ ReachesThreshold(values[i + 1], high)
  \/ /\ ReachesThreshold(values[i + 1], low)
     /\ \E n \in EightNeighbours(width, height, i) :
          \/ ReachesThreshold(values[n + 1], high)
          \/ n < i /\ MarkedInPass(values, width, height, low, high, n)

\* C24: the hysteresis of applyCannyEdgeDetection is one pass in raster
\* order over the suppressed magnitudes: a pixel whose value is >= high is
\* an edge; a pixel whose value is >= low and < high is an edge if and only
\* if one of its 8 neighbours was marked an edge earlier in the pass or has
\* a value >= high; every other pixel is not an edge.  So a weak pixel whose
\* only connection to a strong pixel goes through a weak pixel visited
\* later is not an edge.
C24_HysteresisSinglePass ==
  Done("applyCannyEdgeDetection") =>
    LET width == call.imageData.width
        height == call.imageData.height
        low == CannyThresholds(call.options)[1]
        high == CannyThresholds(call.options)[2]
        values == SuppressedOfCall
    IN  \A i \in 0..(width * height - 1) :
          /\ ret.data[i] \in {Gray(0, 255), Gray(255, 255)}
          /\ ret.data[i] = Gray(255, 255)
               <=> MarkedInPass(values, width, height, low, high, i)

\* C24 witness: on ScenarioF with thresholds 200 and 300 the weak pixel
\* (1, 1) is not an edge although its right neighbour (2, 1), visited after
\* it, is a weak pixel next to the strong pixel (3, 2) and is an edge; and
\* the weak pixel (1, 2), which has no strong neighbour, is an edge through
\* (2, 1), visited before it.
C24_Witness ==
  /\ Done("applyCannyEdgeDetection")
  /\ call.imageData = GreyImage(5, 4, ScenarioF)
  /\ call.options = [given |-> TRUE, lowThreshold |-> 200, highThreshold |-> 300]
  /\ ReachesThreshold(SuppressedOfCall[6 + 1], 200)
  /\ ReachesThreshold(SuppressedOfCall[13 + 1], 300)
  /\ \A n \in EightNeighbours(5, 4, 11) :
       ~ReachesThreshold(SuppressedOfCall[n + 1], 300)
  /\ ret.data[6] = Gray(0, 255)
  /\ ret.data[7] = Gray(255, 255)
  /\ ret.data[11] = Gray(255, 255)

\* C29: on an image in which every pixel has the same colour
\* applyCannyEdgeDetection marks no pixel an edge, for every size of the
\* image and every pair of thresholds with 0 < lowThreshold <= highThreshold.
C29_UniformImageHasNoEdge ==
  (/\ Done("applyCannyEdgeDetection")
   /\ \A i \in DOMAIN call.imageData.data :
        call.imageData.data[i] = call.imageData.data[0]
   /\ 0 < CannyThresholds(call.options)[1]
   /\ CannyThresholds(call.options)[1] <= CannyThresholds(call.options)[2]) =>
    \A i \in DOMAIN ret.data : ret.data[i] = Gray(0, 255)

=============================================================================
